---- MODULE Spec2Model ----
(***************************************************************************)
(* Shade-LA: the geo-feature -> 3D scene builder (RhinoViewer.jsx), the    *)
(* OBJ mesh viewer (GrasshopperRenderPanel) and the AOI drag selector      *)
(* (CesiumMap), modelled as state machines.                                *)
(*                                                                         *)
(* Attribute values that the code hands to parseFloat are sequences of     *)
(* one-character strings (<<"1","5">> is "15", << >> is an absent or empty *)
(* attribute, which JavaScript treats as falsy); tag values that the code  *)
(* only tests for presence or compares with === are plain strings with ""  *)
(* for an absent tag.                                                      *)
(***************************************************************************)
EXTENDS Integers, Sequences, FiniteSets, TLC

VARIABLES
    \* ---- RhinoViewer.jsx : scene builder --------------------------------
    sceneRef,      \* TRUE while sceneRef.current / cameraRef.current are set
    scene,         \* the geometry groups that are children of the THREE.Scene
    groupsRef,     \* groupsRef.current : layer -> build whose group is tracked (0 = null)
    created,       \* every THREE.Group a build has constructed: id -> number of children
    disposals,     \* id -> how many times the group's geometry/material were disposed
    pc,            \* build -> "none" | "fetch" (suspended at await fetch) | "done"
    started,       \* number of renderBbox invocations so far
    outcome,       \* build -> how the invocation returned
    atStart,       \* build -> the scene state the invocation found when it was called
    bboxOf,        \* build -> the bbox argument of the invocation while it is running
    fetched,       \* build -> how its fetch ended: "none" | "rejected" | "notOk" | "empty" | "data"
    sceneCamera,   \* position of the camera object and targetRef.current
    \* ---- HeightEstimator ------------------------------------------------
    props,         \* the attribute map of the feature under estimation
    hpc,           \* "in" before the estimators ran, "out" after
    hRank,         \* h of featuresWithHeight (ranking)
    hExtrude,      \* h of the extrusion loop
    hCesium,       \* h of the LEFT_UP handler (extrudedHeight)
    hDepth,        \* height of the extrusion loop: the depth of the ExtrudeGeometry
    \* ---- GrasshopperRenderPanel : OBJ mesh viewer -----------------------
    meshRef,       \* meshRef.current : id of the active THREE.Mesh (0 = null)
    meshScene,     \* the meshes that are children of the viewer's scene
    meshes,        \* every THREE.Mesh constructed: id -> text, rotation, position
    meshDisposals, \* id -> how often its geometry / its material were disposed
    rotDeg,        \* the rotDeg state
    lastObjText,   \* the lastObjText state
    viewCenter,    \* viewCenterRef.current
    viewDist,      \* viewDistRef.current
    camera,        \* camera position, near (in 1/1000), far, and controls.target
    lastLoad,      \* how the last setObjInViewer call ended: "none" | "ok" | "error"
    loadCalls,     \* number of setObjInViewer calls so far
    viewerOps,     \* number of viewer handlers run so far
    lastOp,        \* the viewer handler that ran last
    mountRef,      \* mountRef.current is the mount element (the panel is mounted)
    viewerRefs,    \* rendererRef, sceneRef, cameraRef and controlsRef hold their objects
    raf,           \* an animation frame is requested (rafRef.current names a pending frame)
    frames,        \* number of frames rendered so far
    released,      \* how often controls.dispose() / renderer.dispose() completed
    teardownFailed, \* the release steps of the teardown that threw
    \* ---- CesiumMap : AOI drag selector ----------------------------------
    dragging,      \* the dragging flag
    startCarto,    \* the anchor, NoCarto when null
    lastCarto,     \* the live point, NoCarto when null
    enableInputs,  \* ctrl.enableInputs : camera panning / zooming enabled
    rectangle,     \* rectangleEntity.rectangle.coordinates: none, callback or constant
    preview,       \* the last value the preview callback returned, and its inputs
    emitted,       \* the last finalized region emitted (bbox message, OSM fetch) and how many were
    lastAoi,       \* lastAoiRef.current
    drags,         \* number of LEFT_DOWN events so far
    \* ---- renderBbox : ranking, cap and geometry filter of one response ---
    capIn,         \* allFeatures of the response
    capOut,        \* the ranked entries that got at least one extruded mesh
    capPc,         \* "in" before the pipeline ran, "out" after
    \* ---- renderBbox : projection of one point ---------------------------
    projBbox,      \* [west, south, east, north] of the build request
    projPoint,     \* the [lon, lat] pair to project
    projOut,       \* the projected point, coordinates as reduced fractions
    projPc,        \* "in" before the projection ran, "out" after
    \* ---- OBJParser on one mesh text --------------------------------------
    parseMesh,     \* the mesh the text was written from: vertex, face and comment lines
    parseIn,       \* the text handed to parseOBJ
    parseOut,      \* parseOBJ's result and getGeometryInfo of the geometry built from it
    parsePc,       \* "in" before the parser ran, "out" after
    \* ---- renderBbox : the loops over the features, on one feature --------
    clsIn,         \* the feature
    clsOut,        \* layer -> number of children the feature adds to that group
    clsPc,         \* "in" before the loops ran, "out" after
    \* ---- renderBbox : bounds, recentering and camera of one build --------
    rcIn,          \* allFeatures of the response
    rcBbox,        \* [west, south, east, north] of the build request
    rcOut,         \* whether the groups were installed, overallBB, the groups' positions, the camera
    rcPc,          \* "in" before the build ran, "out" after
    \* ---- GrasshopperRenderPanel : export and snapshot requests -----------
    rfPc,          \* invocation of renderFromSchema -> "idle", "export", "snapshot", "returned"
    rfResult,      \* invocation -> "none" or the value it returned
    objReq,        \* invocation -> its requestObjFromViewer promise, listener, done flag, timer
    snapReq,       \* invocation -> its requestSnapshot promise, listener, done flag, timer
    status,        \* the panel's status text
    lastError,     \* the panel's error text
    imgUrl,        \* the snapshot image shown, "" for none
    lastEvent,     \* the window event or timer that was handled last
    events         \* number of viewer responses dispatched so far

sceneVars  == <<sceneRef, scene, groupsRef, created, disposals, pc, started, outcome, atStart,
                bboxOf, fetched, sceneCamera>>
heightVars == <<props, hpc, hRank, hExtrude, hCesium, hDepth>>
viewerVars == <<meshRef, meshScene, meshes, meshDisposals, rotDeg, lastObjText,
                viewCenter, viewDist, camera, lastLoad, loadCalls, viewerOps,
                lastOp, mountRef, viewerRefs, raf, frames, released, teardownFailed>>
lifeVars   == <<mountRef, viewerRefs, raf, frames, released, teardownFailed>>
selVars    == <<dragging, startCarto, lastCarto, enableInputs, rectangle, preview,
                emitted, lastAoi, drags>>
capVars    == <<capIn, capOut, capPc>>
projVars   == <<projBbox, projPoint, projOut, projPc>>
parseVars  == <<parseMesh, parseIn, parseOut, parsePc>>
clsVars    == <<clsIn, clsOut, clsPc>>
rcVars     == <<rcIn, rcBbox, rcOut, rcPc>>
reqVars    == <<rfPc, rfResult, objReq, snapReq, status, lastError, imgUrl, lastEvent, events>>
pureVars   == <<capVars, projVars, parseVars, clsVars, rcVars, reqVars>>
vars       == <<sceneVars, heightVars, viewerVars, selVars, pureVars>>

(***************************************************************************)
(* Bounds                                                                  *)
(***************************************************************************)
MaxBuilds == 3

Builds == 1..MaxBuilds

MaxViewerOps == 3

MaxDrags == 2

\* the ranking pipeline is run on responses of at most MaxCapFeatures features
\* with the cap scaled down to SmallCap, so that a response can exceed it
MaxCapFeatures == 4

SmallCap == 2

\* region coordinates are the even numbers of -2 * MaxHalfCoord .. 2 * MaxHalfCoord,
\* in units of a quarter of the smallest span (0.25e-6 degrees)
MaxHalfCoord == 2

\* the parser is run on texts of at most MaxLines lines (and on a cube)
MaxLines == 3

MaxRecenterFeatures == 2

\* invocations of renderFromSchema, and responses the viewer dispatches
MaxRuns == 2

MaxEvents == 2

(***************************************************************************)
(* JavaScript helpers                                                      *)
(***************************************************************************)
\* a JavaScript number: NaN or a value
NaN == [isNaN |-> TRUE, v |-> 0]

Num(n) == [isNaN |-> FALSE, v |-> n]

Digits == {"0", "1", "2", "3", "4", "5", "6", "7", "8", "9"}

DigitVal(c) ==
    CASE c = "0" -> 0 [] c = "1" -> 1 [] c = "2" -> 2 [] c = "3" -> 3
      [] c = "4" -> 4 [] c = "5" -> 5 [] c = "6" -> 6 [] c = "7" -> 7
      [] c = "8" -> 8 [] c = "9" -> 9

\* a parsed attribute is truthy unless it is undefined or the empty string
Truthy(s) == s # << >>

\* a tag is truthy unless it is undefined or the empty string
TruthyTag(t) == t # ""

RECURSIVE SkipSpaces(_)
SkipSpaces(s) ==
    IF s # << >> /\ Head(s) = " " THEN SkipSpaces(Tail(s)) ELSE s

\* value of the longest prefix of decimal digits of s, acc the value so far
RECURSIVE DigitPrefix(_, _)
DigitPrefix(s, acc) ==
    IF s # << >> /\ Head(s) \in Digits
    THEN DigitPrefix(Tail(s), 10 * acc + DigitVal(Head(s)))
    ELSE acc

\* parseFloat(String(s)): leading blanks are skipped, an optional sign and the
\* longest numeric prefix are read, anything after it is ignored; NaN when
\* there is no numeric prefix.  (The alphabet has no "." and no exponent.)
ParseFloat(s) ==
    LET t    == SkipSpaces(s)
        neg  == t # << >> /\ Head(t) = "-"
        body == IF neg THEN Tail(t) ELSE t
    IN  IF body = << >> \/ Head(body) \notin Digits
        THEN NaN
        ELSE IF neg THEN Num(0 - DigitPrefix(body, 0)) ELSE Num(DigitPrefix(body, 0))

\* x || 0 on a number: NaN (and 0) are falsy
OrZero(x) == IF x.isNaN THEN 0 ELSE x.v

\* Math.max / Math.abs on two numbers
Max2(x, y) == IF x >= y THEN x ELSE y

Abs(x) == IF x < 0 THEN 0 - x ELSE x

(***************************************************************************)
(* HeightEstimator: the three copies of the height rule                    *)
(***************************************************************************)
LevelHeight == 3

DefaultHeight == 10

\* String(props.levels || props["building:levels"])
LevelsText(p) == IF Truthy(p.levels) THEN p.levels ELSE p.buildingLevels

\* a ranking that looks at the level count before the explicit height
RankHeight_LevelsFirst(p) ==
    IF Truthy(p.levels) \/ Truthy(p.buildingLevels)
    THEN OrZero(ParseFloat(LevelsText(p))) * LevelHeight
    ELSE IF Truthy(p.height)
    THEN LET parsed == ParseFloat(p.height)
         IN  IF ~parsed.isNaN THEN parsed.v ELSE 0
    ELSE IF Truthy(p.buildingHeight)
    THEN LET parsed == ParseFloat(p.buildingHeight)
         IN  IF ~parsed.isNaN THEN parsed.v ELSE 0
    ELSE DefaultHeight

\* featuresWithHeight: let h = 0; if / else if / else if / else h = 10.0
RankHeight(p) ==
    IF Truthy(p.height)
    THEN LET parsed == ParseFloat(p.height)
         IN  IF ~parsed.isNaN THEN parsed.v ELSE 0
    ELSE IF Truthy(p.buildingHeight)
    THEN LET parsed == ParseFloat(p.buildingHeight)
         IN  IF ~parsed.isNaN THEN parsed.v ELSE 0
    ELSE IF Truthy(p.levels) \/ Truthy(p.buildingLevels)
    THEN OrZero(ParseFloat(LevelsText(p))) * LevelHeight
    ELSE DefaultHeight

\* extrusion loop: let h = 10; if / else if / else if, no final else
ExtrudeHeight(p) ==
    IF Truthy(p.height)
    THEN LET parsed == ParseFloat(p.height)
         IN  IF ~parsed.isNaN THEN parsed.v ELSE DefaultHeight
    ELSE IF Truthy(p.buildingHeight)
    THEN LET parsed == ParseFloat(p.buildingHeight)
         IN  IF ~parsed.isNaN THEN parsed.v ELSE DefaultHeight
    ELSE IF Truthy(p.levels) \/ Truthy(p.buildingLevels)
    THEN OrZero(ParseFloat(LevelsText(p))) * LevelHeight
    ELSE DefaultHeight

\* LEFT_UP handler (extrudedHeight): let h = 0; if / else if / else if / else h = 10.0
CesiumHeight(p) ==
    IF Truthy(p.height)
    THEN LET parsed == ParseFloat(p.height)
         IN  IF ~parsed.isNaN THEN parsed.v ELSE 0
    ELSE IF Truthy(p.buildingHeight)
    THEN LET parsed == ParseFloat(p.buildingHeight)
         IN  IF ~parsed.isNaN THEN parsed.v ELSE 0
    ELSE IF Truthy(p.levels) \/ Truthy(p.buildingLevels)
    THEN OrZero(ParseFloat(LevelsText(p))) * LevelHeight
    ELSE DefaultHeight

(***************************************************************************)
(* SceneBuilder inputs: decoded GeoJSON features                           *)
(***************************************************************************)
Layers == {"buildings", "roads", "parks", "water"}

NoProps ==
    [building |-> "", buildingPart |-> "", buildingUse |-> "", highway |-> "",
     leisure |-> "", landuse |-> "", natural |-> "", waterway |-> "",
     height |-> << >>, buildingHeight |-> << >>, levels |-> << >>, buildingLevels |-> << >>]

Ring3 == << <<0, 0>>, <<2, 0>>, <<0, 2>> >>

Line2 == << <<0, 0>>, <<2, 2>> >>

\* f.geometry missing (or without a type)
NoGeometry == [type |-> "", coordinates |-> << >>]

PolygonGeom == [type |-> "Polygon", coordinates |-> <<Ring3>>]

MultiPolygonGeom == [type |-> "MultiPolygon", coordinates |-> << <<Ring3>>, <<Ring3>> >>]

LineGeom == [type |-> "LineString", coordinates |-> Line2]

PointGeom == [type |-> "Point", coordinates |-> <<1, 1>>]

Feature(p, g) == [properties |-> p, geometry |-> g]

FBuilding == Feature([NoProps EXCEPT !.building = "yes", !.height = <<"1", "5">>], PolygonGeom)

FBuildingPart == Feature([NoProps EXCEPT !.buildingPart = "yes", !.levels = <<"4">>], MultiPolygonGeom)

FBuildingPoint == Feature([NoProps EXCEPT !.building = "yes"], PointGeom)

\* a building mapped as a node, with an explicit height
FBuildingNode == Feature([NoProps EXCEPT !.building = "yes", !.height = <<"4", "0">>], PointGeom)

\* a building footprint without any height attribute
FShed == Feature([NoProps EXCEPT !.building = "shed"], PolygonGeom)

FRoad == Feature([NoProps EXCEPT !.highway = "residential"], LineGeom)

FPark == Feature([NoProps EXCEPT !.leisure = "park"], PolygonGeom)

FWater == Feature([NoProps EXCEPT !.natural = "water"], PolygonGeom)

\* what the suspended fetch can resume with: a rejection (network error,
\* timeout), a non-OK response, or a body
Rejected == [settled |-> "rejected", ok |-> FALSE, features |-> << >>]

NotOk == [settled |-> "fulfilled", ok |-> FALSE, features |-> << >>]

Body(fs) == [settled |-> "fulfilled", ok |-> TRUE, features |-> fs]

Responses ==
    { Rejected,
      NotOk,
      [NotOk EXCEPT !.features = <<FBuilding>>],
      Body(<< >>),
      Body(<<FRoad, FPark>>),
      Body(<<FBuildingPoint, FRoad, FWater>>),
      Body(<<FBuildingPart, FBuilding, FRoad, FWater>>) }

(***************************************************************************)
(* SceneBuilder: projection and extrusion depth, on exact fractions        *)
(***************************************************************************)
\* Math.max(1e-6, ...): 1e-6 degrees in units of 0.25e-6 degrees
MinSpan == 4

halfSize == 50

RECURSIVE Gcd(_, _)
Gcd(a, b) == IF b = 0 THEN a ELSE Gcd(b, a % b)

\* the number n / d (d > 0) in lowest terms
Ratio(n, d) ==
    LET g == Gcd(Abs(n), d)
    IN  [num |-> n \div g, den |-> d \div g]

RNum(n) == Ratio(n, 1)

\* a <= b on fractions with positive denominators
RLeq(a, b) == a.num * b.den <= b.num * a.den

\* Math.max / Math.min on two fractions
RMax(a, b) == IF RLeq(a, b) THEN b ELSE a

RMin(a, b) == IF RLeq(a, b) THEN a ELSE b

RSub(a, b) == Ratio(a.num * b.den - b.num * a.den, a.den * b.den)

RNeg(a) == [num |-> 0 - a.num, den |-> a.den]

\* a projection that scales the normalized offset by halfSize only
ProjectCoordinate_NotDoubled(v, lo, hi) ==
    LET span == Max2(MinSpan, hi - lo)
    IN  Ratio((2 * v - (lo + hi)) * halfSize, 2 * span)

\* c = (lo + hi) / 2; span = Math.max(1e-6, hi - lo); n = (v - c) / span;
\* n * halfSize * 2
ProjectCoordinate(v, lo, hi) ==
    LET span == Max2(MinSpan, hi - lo)
    IN  Ratio((2 * v - (lo + hi)) * halfSize * 2, 2 * span)

\* projectPoint(lon, lat) and the ring loop, for bbox = [west, south, east, north]
ProjectPoint(lon, lat, bbox) ==
    [x |-> ProjectCoordinate(lon, bbox[1], bbox[3]),
     y |-> ProjectCoordinate(lat, bbox[2], bbox[4])]

\* a depth without the lower limit
ExtrusionDepth_NoFloor(h) == RMin(RNum(30), Ratio(h, 12))

\* const height = Math.min(30, Math.max(2, h / 12))
ExtrusionDepth(h) == RMin(RNum(30), RMax(RNum(2), Ratio(h, 12)))

(***************************************************************************)
(* SceneBuilder: the synchronous parts of renderBbox                       *)
(***************************************************************************)
StructureCap == 3000

\* allFeatures.filter(props.building || props["building:part"] || props["building:use"])
IsBuildingTagged(f) ==
    \/ TruthyTag(f.properties.building)
    \/ TruthyTag(f.properties.buildingPart)
    \/ TruthyTag(f.properties.buildingUse)

\* one step of the stable descending sort: x goes after every entry that is
\* at least as tall
InsertByHeight(sorted, x) ==
    LET k == Cardinality({i \in 1..Len(sorted) : sorted[i].h >= x.h})
    IN  SubSeq(sorted, 1, k) \o <<x>> \o SubSeq(sorted, k + 1, Len(sorted))

RECURSIVE SortByHeight(_)
SortByHeight(xs) ==
    IF xs = << >> THEN << >>
    ELSE InsertByHeight(SortByHeight(SubSeq(xs, 1, Len(xs) - 1)), xs[Len(xs)])

\* xs.slice(0, n)
Slice(xs, n) == SubSeq(xs, 1, IF Len(xs) < n THEN Len(xs) ELSE n)

\* .map({feature, h}).sort((a, b) => b.h - a.h).slice(0, cap); idx is the
\* entry's position in buildings
RankedBuildings(buildings, cap) ==
    LET withH == [i \in 1..Len(buildings) |->
                     [feature |-> buildings[i], h |-> RankHeight(buildings[i].properties),
                      idx |-> i]]
    IN  Slice(SortByHeight(withH), cap)

\* .map({feature, h}).sort((a, b) => b.h - a.h).slice(0, 3000).map(x => x.feature)
FeaturesWithHeight(buildings) ==
    LET kept == RankedBuildings(buildings, StructureCap)
    IN  [i \in 1..Len(kept) |-> kept[i].feature]

IsPolygonal(geom) == geom.type = "Polygon" \/ geom.type = "MultiPolygon"

\* the outer rings (poly[0]) with at least 3 points, one per polygon
OuterRings(geom) ==
    LET polygons == IF geom.type = "Polygon" THEN <<geom.coordinates>> ELSE geom.coordinates
        usable   == SelectSeq(polygons, LAMBDA poly : Len(poly) >= 1 /\ Len(poly[1]) >= 3)
    IN  [i \in 1..Len(usable) |-> usable[i][1]]

\* the ranked entries the extrusion loop does not skip: Polygon or
\* MultiPolygon geometry with a ring of at least 3 points
ExtrudedEntries(kept) ==
    SelectSeq(kept, LAMBDA x : IsPolygonal(x.feature.geometry)
                                  /\ OuterRings(x.feature.geometry) # << >>)

\* the extruded meshes added to buildingsGroup, in order
RECURSIVE BuildingMeshes(_)
BuildingMeshes(fs) ==
    IF fs = << >> THEN << >>
    ELSE (IF IsPolygonal(Head(fs).geometry) THEN OuterRings(Head(fs).geometry) ELSE << >>)
         \o BuildingMeshes(Tail(fs))

\* the polylines one feature adds to roadsGroup
RoadLinesOf(f) ==
    IF ~TruthyTag(f.geometry.type) \/ ~TruthyTag(f.properties.highway) THEN << >>
    ELSE IF f.geometry.type = "LineString"
    THEN (IF Len(f.geometry.coordinates) >= 2 THEN <<f.geometry.coordinates>> ELSE << >>)
    ELSE IF f.geometry.type = "MultiLineString"
    THEN SelectSeq(f.geometry.coordinates, LAMBDA line : Len(line) >= 2)
    ELSE << >>

IsPark(f) == f.properties.leisure = "park" \/ f.properties.landuse = "grass"

IsWater(f) == f.properties.natural = "water" \/ f.properties.waterway = "riverbank"

\* the flat shapes one feature adds to parksGroup / waterGroup: features with a
\* highway tag never get here (continue), park wins over water
FlatShapesOf(f) ==
    IF ~TruthyTag(f.geometry.type) \/ TruthyTag(f.properties.highway) THEN << >>
    ELSE IF ~IsPark(f) /\ ~IsWater(f) THEN << >>
    ELSE IF ~IsPolygonal(f.geometry) THEN << >>
    ELSE OuterRings(f.geometry)

RECURSIVE RoadLines(_)
RoadLines(fs) ==
    IF fs = << >> THEN << >> ELSE RoadLinesOf(Head(fs)) \o RoadLines(Tail(fs))

RECURSIVE ParkShapes(_)
ParkShapes(fs) ==
    IF fs = << >> THEN << >>
    ELSE (IF IsPark(Head(fs)) THEN FlatShapesOf(Head(fs)) ELSE << >>) \o ParkShapes(Tail(fs))

RECURSIVE WaterShapes(_)
WaterShapes(fs) ==
    IF fs = << >> THEN << >>
    ELSE (IF ~IsPark(Head(fs)) /\ IsWater(Head(fs)) THEN FlatShapesOf(Head(fs)) ELSE << >>)
         \o WaterShapes(Tail(fs))

\* number of children each of the four new groups gets from a feature collection
GroupChildren(allFeatures) ==
    LET buildings == SelectSeq(allFeatures, IsBuildingTagged)
    IN  [l \in Layers |->
            CASE l = "buildings" -> Len(BuildingMeshes(FeaturesWithHeight(buildings)))
              [] l = "roads"     -> Len(RoadLines(allFeatures))
              [] l = "parks"     -> Len(ParkShapes(allFeatures))
              [] l = "water"     -> Len(WaterShapes(allFeatures))]

\* the smallest / largest fraction of a set
RSetMin(S) == CHOOSE m \in S : \A x \in S : RLeq(m, x)

RSetMax(S) == CHOOSE m \in S : \A x \in S : RLeq(x, m)

\* extrudeGeom.boundingBox after rotateX(-PI / 2): the shape lies in x / y, the
\* extrusion runs from z = 0 to z = depth, the quarter turn maps (x, y, z) to
\* (x, z, -y)
RingBox(ring, p, bbox) ==
    LET xs == {ProjectCoordinate(ring[k][1], bbox[1], bbox[3]) : k \in 1..Len(ring)}
        ys == {ProjectCoordinate(ring[k][2], bbox[2], bbox[4]) : k \in 1..Len(ring)}
    IN  [min |-> <<RSetMin(xs), RNum(0), RNeg(RSetMax(ys))>>,
         max |-> <<RSetMax(xs), ExtrusionDepth(ExtrudeHeight(p)), RNeg(RSetMin(ys))>>]

\* the boxes whose corners the building loop pushes to allPoints
StructureBoxes(allFeatures, bbox) ==
    LET kept == FeaturesWithHeight(SelectSeq(allFeatures, IsBuildingTagged))
    IN  UNION { {RingBox(OuterRings(kept[i].geometry)[j], kept[i].properties, bbox) :
                     j \in 1..Len(OuterRings(kept[i].geometry))} :
                i \in {k \in 1..Len(kept) : IsPolygonal(kept[k].geometry)} }

\* new THREE.Box3().setFromPoints(allPoints)
OverallBB(boxes) ==
    [min |-> [i \in 1..3 |-> RSetMin({bx.min[i] : bx \in boxes})],
     max |-> [i \in 1..3 |-> RSetMax({bx.max[i] : bx \in boxes})]]

\* maxDim = Math.max(size.x, size.y, size.z); dist = maxDim * 1.8 || 20
CameraDistance(box) ==
    LET size   == [i \in 1..3 |-> RSub(box.max[i], box.min[i])]
        maxDim == RMax(size[1], RMax(size[2], size[3]))
    IN  IF maxDim.num = 0 THEN RNum(20) ELSE Ratio(maxDim.num * 9, maxDim.den * 5)

\* camera.position.set(20, 20, 20); targetRef.current.set(0, 0, 0)
InitialCamera ==
    [position |-> <<RNum(20), RNum(20), RNum(20)>>, target |-> <<RNum(0), RNum(0), RNum(0)>>]

\* how the awaited fetch ended, as the caller of fetch sees it
FetchKind(resp) ==
    IF resp.settled = "rejected" THEN "rejected"
    ELSE IF ~resp.ok THEN "notOk"
    ELSE IF resp.features = << >> THEN "empty"
    ELSE "data"

\* an installation that adds only the groups that got children
InstallGroups_NonEmptyOnly(sc, b, children) ==
    sc \cup {g \in {b} \X Layers : children[g[2]] > 0}

\* scene.add(roadsGroup); scene.add(parksGroup); scene.add(waterGroup);
\* scene.add(buildingsGroup)
InstallGroups(sc, b, children) == sc \cup ({b} \X Layers)

\* a continuation that goes on after a non-OK response
PassesFetch_AnyStatus(resp) == resp.settled = "fulfilled"

\* `await fetch` did not throw, and `if (!res.ok) return` did not return
PassesFetch(resp) == resp.settled = "fulfilled" /\ resp.ok

(***************************************************************************)
(* SceneBuilder: renderBbox as two steps around its await                  *)
(***************************************************************************)
GroupIds == Builds \X Layers

\* the groups groupsRef.current holds (the non-null entries)
Tracked(ref) == {<<ref[l], l>> : l \in {k \in Layers : ref[k] # 0}}

\* useRef({ buildings: null, roads: null, parks: null, water: null })
NullGroups == [l \in Layers |-> 0]

\* a renderBbox that forgets to reset groupsRef.current after disposing
ResetGroupsRef_Skipped(ref) == ref

\* groupsRef.current = { buildings: null, ... } after "remove previous groups"
ResetGroupsRef(ref) == NullGroups

\* builds suspended at their fetch
Pending == {b \in Builds : pc[b] = "fetch"}

Snapshot ==
    [scene |-> scene, groupsRef |-> groupsRef, disposals |-> disposals,
     created |-> DOMAIN created, pending |-> Pending]

NoSnapshot ==
    [scene |-> {}, groupsRef |-> NullGroups, disposals |-> [g \in GroupIds |-> 0],
     created |-> {}, pending |-> {}]

\* renderBbox up to `await fetch`: the guard, "remove previous groups", the reset
RenderBboxStart(bbox) ==
    /\ started < MaxBuilds
    /\ LET b == started + 1
       IN  /\ started' = b
           /\ atStart' = [atStart EXCEPT ![b] = Snapshot]
           /\ IF ~sceneRef
              THEN /\ pc' = [pc EXCEPT ![b] = "done"]
                   /\ outcome' = [outcome EXCEPT ![b] = "noScene"]
                   /\ UNCHANGED <<scene, groupsRef, disposals, bboxOf>>
              ELSE /\ scene' = scene \ Tracked(groupsRef)
                   /\ disposals' = [g \in GroupIds |->
                                       IF g \in Tracked(groupsRef) THEN disposals[g] + 1
                                       ELSE disposals[g]]
                   /\ groupsRef' = ResetGroupsRef(groupsRef)
                   /\ bboxOf' = [bboxOf EXCEPT ![b] = bbox]
                   /\ pc' = [pc EXCEPT ![b] = "fetch"]
                   /\ UNCHANGED outcome
    /\ UNCHANGED <<sceneRef, created, fetched, sceneCamera>>

\* renderBbox from the resumption of `await fetch` to its return.  A rejected
\* fetch throws out of renderBbox; after the cleanup nulled cameraRef the
\* continuation throws at cameraRef.current.position, behind the scene.add calls
RenderBboxResume(b, resp) ==
    /\ pc[b] = "fetch"
    /\ pc' = [pc EXCEPT ![b] = "done"]
    /\ bboxOf' = [bboxOf EXCEPT ![b] = << >>]
    /\ fetched' = [fetched EXCEPT ![b] = FetchKind(resp)]
    /\ LET allFeatures == resp.features
           buildings   == SelectSeq(allFeatures, IsBuildingTagged)
           children    == GroupChildren(allFeatures)
           dist        == CameraDistance(OverallBB(StructureBoxes(allFeatures, bboxOf[b])))
       IN  IF ~PassesFetch(resp)
           THEN /\ outcome' = [outcome EXCEPT ![b] =
                                  IF resp.settled = "rejected" THEN "rejected" ELSE "notOk"]
                /\ UNCHANGED <<scene, groupsRef, created, sceneCamera>>
           ELSE IF Len(allFeatures) = 0
           THEN /\ outcome' = [outcome EXCEPT ![b] = "noFeatures"]
                /\ UNCHANGED <<scene, groupsRef, created, sceneCamera>>
           ELSE IF Len(buildings) = 0
           THEN /\ outcome' = [outcome EXCEPT ![b] = "noBuildings"]
                /\ UNCHANGED <<scene, groupsRef, created, sceneCamera>>
           ELSE /\ created' = [g \in DOMAIN created \cup ({b} \X Layers) |->
                                  IF g[1] = b THEN children[g[2]] ELSE created[g]]
                /\ IF children["buildings"] = 0
                   THEN /\ outcome' = [outcome EXCEPT ![b] = "noGeometry"]
                        /\ UNCHANGED <<scene, groupsRef, sceneCamera>>
                   ELSE /\ scene' = InstallGroups(scene, b, children)
                        /\ groupsRef' = [l \in Layers |-> b]
                        /\ IF sceneRef
                           THEN /\ sceneCamera' = [position |-> <<dist, dist, dist>>,
                                                   target |-> <<RNum(0), RNum(0), RNum(0)>>]
                                /\ outcome' = [outcome EXCEPT ![b] = "installed"]
                           ELSE /\ outcome' = [outcome EXCEPT ![b] = "threw"]
                                /\ UNCHANGED sceneCamera
    /\ UNCHANGED <<sceneRef, disposals, started, atStart>>

\* the cleanup of the mount effect: renderer disposed, the three refs nulled
Unmount ==
    /\ sceneRef
    /\ sceneRef' = FALSE
    /\ UNCHANGED <<scene, groupsRef, created, disposals, pc, started, outcome, atStart, bboxOf,
                   fetched, sceneCamera>>

\* the data of the window messages the component can receive
BboxMessage(bbox) == [type |-> "cadmapper:bbox", bbox |-> bbox]

Messages ==
    { BboxMessage(<<-4, -4, 4, 4>>),      \* a region with area
      BboxMessage(<<-4, 2, 4, 2>>),       \* south = north
      BboxMessage(<<-4, -4, 4>>),         \* not four numbers
      [type |-> "grasshopper:result", bbox |-> <<-4, -4, 4, 4>>] }

\* the message handler: data.type and the array length are the only tests
OnMessage(data) ==
    /\ data.type = "cadmapper:bbox"
    /\ Len(data.bbox) = 4
    /\ RenderBboxStart(data.bbox)

InitScene ==
    /\ sceneRef = TRUE
    /\ scene = {}
    /\ groupsRef = NullGroups
    /\ created = << >>
    /\ disposals = [g \in GroupIds |-> 0]
    /\ pc = [b \in Builds |-> "none"]
    /\ started = 0
    /\ outcome = [b \in Builds |-> "none"]
    /\ atStart = [b \in Builds |-> NoSnapshot]
    /\ bboxOf = [b \in Builds |-> << >>]
    /\ fetched = [b \in Builds |-> "none"]
    /\ sceneCamera = InitialCamera

(***************************************************************************)
(* The ranking pipeline of renderBbox on one response                      *)
(***************************************************************************)
CapFeatures == {FBuilding, FBuildingPart, FBuildingNode, FShed, FRoad}

RECURSIVE SeqsUpTo(_, _)
SeqsUpTo(S, n) ==
    IF n = 0 THEN {<< >>}
    ELSE LET shorter == SeqsUpTo(S, n - 1)
         IN  shorter \cup {Append(xs, x) : xs \in {ys \in shorter : Len(ys) = n - 1}, x \in S}

InitCap ==
    /\ capIn \in SeqsUpTo(CapFeatures, MaxCapFeatures)
    /\ capOut = << >>
    /\ capPc = "in"

IdleCap ==
    /\ capIn = << >>
    /\ capOut = << >>
    /\ capPc = "out"

\* buildings filter, featuresWithHeight and the extrusion loop's geometry test
RankAndExtrude ==
    /\ capPc = "in"
    /\ capOut' = ExtrudedEntries(RankedBuildings(SelectSeq(capIn, IsBuildingTagged), SmallCap))
    /\ capPc' = "out"
    /\ UNCHANGED capIn

(***************************************************************************)
(* The projection of renderBbox                                            *)
(***************************************************************************)
Coords == {2 * k : k \in (0 - MaxHalfCoord)..MaxHalfCoord}

\* the regions a build request can carry, west <= east and south <= north
Regions == {<<w, so, e, n>> : w \in Coords, so \in Coords, e \in Coords, n \in Coords}
              \cap {b \in Seq(Int) : b[1] <= b[3] /\ b[2] <= b[4]}

\* the center and the four corners of a region
RegionPoints(bbox) ==
    { <<(bbox[1] + bbox[3]) \div 2, (bbox[2] + bbox[4]) \div 2>>,
      <<bbox[1], bbox[2]>>, <<bbox[3], bbox[4]>>, <<bbox[1], bbox[4]>>, <<bbox[3], bbox[2]>> }

NoProjection == [x |-> Ratio(0, 1), y |-> Ratio(0, 1)]

InitProject ==
    /\ projBbox \in Regions
    /\ projPoint \in RegionPoints(projBbox)
    /\ projOut = NoProjection
    /\ projPc = "in"

IdleProject ==
    /\ projBbox = <<0, 0, 0, 0>>
    /\ projPoint = <<0, 0>>
    /\ projOut = NoProjection
    /\ projPc = "out"

Project ==
    /\ projPc = "in"
    /\ projOut' = ProjectPoint(projPoint[1], projPoint[2], projBbox)
    /\ projPc' = "out"
    /\ UNCHANGED <<projBbox, projPoint>>

(***************************************************************************)
(* HeightEstimator as a state machine over one attribute map               *)
(***************************************************************************)
AttrTexts ==
    { << >>, <<"1", "5">>, <<"4">>, <<"0">>, <<"a", "b">>, <<"2", "0", "m">>, <<" ", "7">>,
      <<"9", "9">>, <<"4", "8", "0">>, <<"-", "5">> }

InitHeight ==
    /\ props \in {[NoProps EXCEPT !.height = a, !.buildingHeight = b,
                                  !.levels = c, !.buildingLevels = d] :
                     a \in AttrTexts, b \in AttrTexts, c \in AttrTexts, d \in AttrTexts}
    /\ hpc = "in"
    /\ hRank = 0
    /\ hExtrude = 0
    /\ hCesium = 0
    /\ hDepth = RNum(0)

IdleHeight ==
    /\ props = NoProps
    /\ hpc = "in"
    /\ hRank = 0
    /\ hExtrude = 0
    /\ hCesium = 0
    /\ hDepth = RNum(0)

\* the three estimators applied to the same attribute map
EstimateHeight ==
    /\ hpc = "in"
    /\ hpc' = "out"
    /\ hRank' = RankHeight(props)
    /\ hExtrude' = ExtrudeHeight(props)
    /\ hCesium' = CesiumHeight(props)
    /\ hDepth' = ExtrusionDepth(ExtrudeHeight(props))
    /\ UNCHANGED props

(***************************************************************************)
(* MeshParser: OBJParser.parseOBJ on text given as its trimmed lines, each *)
(* line split at white space into tokens (sequences of characters)         *)
(***************************************************************************)
\* parts[k], undefined (<< >>) when the line has no such token
Part(parts, k) == IF k <= Len(parts) THEN parts[k] ELSE << >>

\* token.split("/")[0]
RECURSIVE FirstSegment(_)
FirstSegment(tok) ==
    IF tok = << >> \/ Head(tok) = "/" THEN << >>
    ELSE <<Head(tok)>> \o FirstSegment(Tail(tok))

\* parseInt(s, 10) - 1 ; parseInt reads integers the way ParseFloat does here
IndexOf(tok) ==
    LET n == ParseFloat(FirstSegment(tok))
    IN  IF n.isNaN THEN NaN ELSE Num(n.v - 1)

\* a triangulation that walks the face as a strip: (face[i - 1], face[i], face[i + 1])
FanTriangles_Strip(face) ==
    LET RECURSIVE Strip(_)
        Strip(i) == IF i >= Len(face) - 1 THEN << >>
                    ELSE <<face[i], face[i + 1], face[i + 2]>> \o Strip(i + 1)
    IN  Strip(1)

\* the triangles of one face: (face[0], face[i], face[i + 1]) for i = 1 .. n - 2
FanTriangles(face) ==
    LET RECURSIVE Fan(_)
        Fan(i) == IF i >= Len(face) - 1 THEN << >>
                  ELSE <<face[1], face[i + 1], face[i + 2]>> \o Fan(i + 1)
    IN  Fan(1)

IsComment(parts) == parts = << >> \/ Head(Head(parts)) = "#"

RECURSIVE ParseOBJ(_)
ParseOBJ(lines) ==
    IF lines = << >> THEN [vertices |-> << >>, faces |-> << >>]
    ELSE LET parts == Head(lines)
             rest  == ParseOBJ(Tail(lines))
         IN  IF IsComment(parts) THEN rest
             ELSE IF Head(parts) = <<"v">>
             THEN [rest EXCEPT !.vertices =
                      <<ParseFloat(Part(parts, 2)), ParseFloat(Part(parts, 3)),
                        ParseFloat(Part(parts, 4))>> \o @]
             ELSE IF Head(parts) = <<"f">>
             THEN [rest EXCEPT !.faces =
                      FanTriangles([i \in 1..(Len(parts) - 1) |-> IndexOf(parts[i + 1])]) \o @]
             ELSE rest

\* !parsed?.vertices?.length || !parsed?.faces?.length
NoUsableGeometry(parsed) == Len(parsed.vertices) = 0 \/ Len(parsed.faces) = 0

\* the position attribute as points, three floats each
VertexPoints(parsed) ==
    {<<parsed.vertices[3 * k - 2].v, parsed.vertices[3 * k - 1].v, parsed.vertices[3 * k].v>> :
        k \in 1..(Len(parsed.vertices) \div 3)}

(***************************************************************************)
(* Sample mesh texts (all coordinates even, so that box centers are whole) *)
(***************************************************************************)
Tok(n) ==
    CASE n = 0 -> <<"0">> [] n = 1 -> <<"1">> [] n = 2 -> <<"2">> [] n = 3 -> <<"3">>
      [] n = 4 -> <<"4">> [] n = 5 -> <<"5">> [] n = 6 -> <<"6">> [] n = 7 -> <<"7">>
      [] n = 8 -> <<"8">>
      [] n = -2 -> <<"-", "2">> [] n = -4 -> <<"-", "4">>

VLine(x, y, z) == << <<"v">>, Tok(x), Tok(y), Tok(z) >>

CommentLine == << <<"#", "o", "b", "j">> >>

TextComment == <<CommentLine>>

TextOnlyVertices == <<VLine(0, 0, 0), VLine(2, 0, 0), VLine(0, 2, 0)>>

TextOnlyFaces == << << <<"f">>, Tok(1), Tok(2), Tok(3) >> >>

TextTriangle ==
    <<CommentLine, VLine(0, 0, 0), VLine(4, 0, 0), VLine(0, 2, 0),
      << <<"f">>, Tok(1), Tok(2), Tok(3) >> >>

\* a mesh whose vertices coincide: every dimension of its box is 0
TextDot ==
    <<VLine(2, 4, 6), VLine(2, 4, 6), VLine(2, 4, 6),
      << <<"f">>, Tok(1), Tok(2), Tok(3) >> >>

TextSlab ==
    <<VLine(2, 0, -2), VLine(8, 0, -2), VLine(8, 4, 6), VLine(2, 4, 6),
      << <<"f">>, <<"1", "/", "1">>, <<"2", "/", "2">>, <<"3", "/", "3">>, <<"4", "/", "4">> >> >>

\* non-blank texts an export response can carry
MeshTexts == {TextComment, TextOnlyVertices, TextOnlyFaces, TextTriangle, TextSlab, TextDot}

(***************************************************************************)
(* ViewerStateMachine: rotation and world bounds                           *)
(***************************************************************************)
InitialRot == [x |-> 0, y |-> 0, z |-> 0]

\* Math.cos / Math.sin of degToRad(d) for quarter turns
Cos90(d) == CASE d % 360 = 0 -> 1 [] d % 360 = 90 -> 0 [] d % 360 = 180 -> -1 [] d % 360 = 270 -> 0

Sin90(d) == CASE d % 360 = 0 -> 0 [] d % 360 = 90 -> 1 [] d % 360 = 180 -> 0 [] d % 360 = 270 -> -1

\* Matrix4.makeRotationFromEuler, order XYZ, applied to v
Rotate(rot, v) ==
    LET a == Cos90(rot.x)  b == Sin90(rot.x)
        c == Cos90(rot.y)  d == Sin90(rot.y)
        e == Cos90(rot.z)  f == Sin90(rot.z)
    IN  << (c * e) * v[1] + (0 - c * f) * v[2] + d * v[3],
           (a * f + b * e * d) * v[1] + (a * e - b * f * d) * v[2] + (0 - b * c) * v[3],
           (b * f - a * e * d) * v[1] + (b * e + a * f * d) * v[2] + (a * c) * v[3] >>

SetMin(S) == CHOOSE m \in S : \A x \in S : m <= x

SetMax(S) == CHOOSE m \in S : \A x \in S : m >= x

\* new THREE.Box3().setFromObject(mesh)
WorldBox(mesh) ==
    LET pts == {<<mesh.position[1] + Rotate(mesh.rotation, v)[1],
                  mesh.position[2] + Rotate(mesh.rotation, v)[2],
                  mesh.position[3] + Rotate(mesh.rotation, v)[3]>> :
                   v \in VertexPoints(ParseOBJ(mesh.text))}
    IN  [min |-> [i \in 1..3 |-> SetMin({q[i] : q \in pts})],
         max |-> [i \in 1..3 |-> SetMax({q[i] : q \in pts})]]

BoxCenter(box) == [i \in 1..3 |-> (box.min[i] + box.max[i]) \div 2]

BoxSize(box) == [i \in 1..3 |-> box.max[i] - box.min[i]]

\* a largest dimension without the fallback for 0
MaxDim_NoFallback(box) ==
    Max2(BoxSize(box)[1], Max2(BoxSize(box)[2], BoxSize(box)[3]))

\* Math.max(size.x, size.y, size.z) || 1
MaxDim(box) ==
    LET m == Max2(BoxSize(box)[1], Max2(BoxSize(box)[2], BoxSize(box)[3]))
    IN  IF m = 0 THEN 1 ELSE m

\* the reframing shared by setObjInViewer, applyRotationToMesh, centerAndGround
Reframe(v, box) ==
    LET c    == BoxCenter(box)
        dist == MaxDim(box) * 2
    IN  [v EXCEPT !.viewCenter = c,
                  !.viewDist = dist,
                  !.camera = [position |-> [i \in 1..3 |-> c[i] + dist],
                              near1000 |-> Max2(10, MaxDim(box)),
                              far      |-> Max2(10000, MaxDim(box) * 20),
                              target   |-> c]]

(***************************************************************************)
(* ViewerStateMachine: the handlers, on the viewer state as a record       *)
(***************************************************************************)
MeshIds == 1..(2 * MaxViewerOps)

Viewer ==
    [meshRef |-> meshRef, meshScene |-> meshScene, meshes |-> meshes,
     meshDisposals |-> meshDisposals, rotDeg |-> rotDeg, lastObjText |-> lastObjText,
     viewCenter |-> viewCenter, viewDist |-> viewDist, camera |-> camera,
     lastLoad |-> lastLoad, loadCalls |-> loadCalls]

\* a disposal that forgets scene.remove(meshRef.current)
DisposeActive_NoRemove(v) ==
    IF v.meshRef = 0 THEN v
    ELSE [v EXCEPT !.meshDisposals[v.meshRef] =
                       [geometry |-> @.geometry + 1, material |-> @.material + 1],
                   !.meshRef = 0]

\* if (meshRef.current) { scene.remove; geometry.dispose; material.dispose; = null }
DisposeActive(v) ==
    IF v.meshRef = 0 THEN v
    ELSE [v EXCEPT !.meshScene = @ \ {v.meshRef},
                   !.meshDisposals[v.meshRef] =
                       [geometry |-> @.geometry + 1, material |-> @.material + 1],
                   !.meshRef = 0]

\* setObjInViewer(objText) as created in a render whose rotDeg was rot
SetObjInViewer(v, objText, rot) ==
    LET v1     == [DisposeActive(v) EXCEPT !.loadCalls = @ + 1]
        parsed == ParseOBJ(objText)
        id     == Cardinality(DOMAIN v.meshes) + 1
        mesh   == [text |-> objText, rotation |-> rot, position |-> <<0, 0, 0>>]
        v2     == [v1 EXCEPT !.meshes = [m \in DOMAIN v.meshes \cup {id} |->
                                            IF m = id THEN mesh ELSE v.meshes[m]],
                             !.meshScene = @ \cup {id},
                             !.meshRef = id,
                             !.lastLoad = "ok"]
    IN  IF NoUsableGeometry(parsed)
        THEN [v1 EXCEPT !.lastLoad = "error"]
        ELSE Reframe(v2, WorldBox(mesh))

\* the effect on [lastObjText, setObjInViewer]: runs after a render in which
\* one of the two changed
LoadEffect(v, changed) ==
    IF changed /\ v.lastObjText # << >>
    THEN SetObjInViewer(v, v.lastObjText, v.rotDeg)
    ELSE v

SetViewer(v) ==
    /\ meshRef' = v.meshRef
    /\ meshScene' = v.meshScene
    /\ meshes' = v.meshes
    /\ meshDisposals' = v.meshDisposals
    /\ rotDeg' = v.rotDeg
    /\ lastObjText' = v.lastObjText
    /\ viewCenter' = v.viewCenter
    /\ viewDist' = v.viewDist
    /\ camera' = v.camera
    /\ lastLoad' = v.lastLoad
    /\ loadCalls' = v.loadCalls

\* ensureInteractiveViewer(): false without a mount element, true when the
\* four references are set (they are set from the mount effect on)
EnsureInteractiveViewer == mountRef

\* renderFromSchema after a successful export: setLastObjText(text), then
\* setObjInViewer(text) of the first render (rotDeg 0,0,0), then the effect;
\* on an unmounted panel the state setters do nothing and setObjInViewer
\* returns at `if (!ok) return`
LoadMesh(objText) ==
    /\ viewerOps < MaxViewerOps
    /\ viewerOps' = viewerOps + 1
    /\ lastOp' = "loadMesh"
    /\ LET v1 == [Viewer EXCEPT !.lastObjText = objText]
           v2 == SetObjInViewer(v1, objText, InitialRot)
       IN  IF EnsureInteractiveViewer
           THEN SetViewer(LoadEffect(v2, objText # lastObjText))
           ELSE SetViewer(Viewer)
    /\ UNCHANGED lifeVars

\* the Refresh button with a lastObjText: setObjInViewer(lastObjText)
Refresh ==
    /\ viewerOps < MaxViewerOps
    /\ lastObjText # << >>
    /\ viewerOps' = viewerOps + 1
    /\ lastOp' = "refresh"
    /\ IF EnsureInteractiveViewer
       THEN SetViewer(SetObjInViewer(Viewer, lastObjText, rotDeg))
       ELSE SetViewer(Viewer)
    /\ UNCHANGED lifeVars

\* applyRotationToMesh(nextRotDeg), then the effect when rotDeg changed; on an
\* unmounted panel setRotDeg does nothing and there is no mesh
ApplyRotationToMesh(nextRotDeg) ==
    /\ viewerOps < MaxViewerOps
    /\ viewerOps' = viewerOps + 1
    /\ lastOp' = "setRotation"
    /\ LET v1 == [Viewer EXCEPT !.rotDeg = nextRotDeg]
           v2 == IF meshRef = 0 THEN v1
                 ELSE LET w == [v1 EXCEPT !.meshes[meshRef].rotation = nextRotDeg]
                      IN  Reframe(w, WorldBox(w.meshes[meshRef]))
       IN  IF mountRef THEN SetViewer(LoadEffect(v2, nextRotDeg # rotDeg))
           ELSE SetViewer(Viewer)
    /\ UNCHANGED lifeVars

\* a grounding that centers the mesh on the y axis as well
GroundedPosition_Centered(position, box) ==
    <<position[1] - BoxCenter(box)[1], position[2] - BoxCenter(box)[2],
      position[3] - BoxCenter(box)[3]>>

\* mesh.position.x += -center.x; .z += -center.z; .y += -minY
GroundedPosition(position, box) ==
    <<position[1] - BoxCenter(box)[1], position[2] - box.min[2],
      position[3] - BoxCenter(box)[3]>>

\* centerAndGround(): returns at once without a mesh
CenterAndGround ==
    /\ viewerOps < MaxViewerOps
    /\ viewerOps' = viewerOps + 1
    /\ lastOp' = "centerAndGround"
    /\ IF meshRef = 0 \/ ~viewerRefs THEN SetViewer(Viewer)
       ELSE LET box == WorldBox(meshes[meshRef])
                w   == [Viewer EXCEPT !.meshes[meshRef].position = GroundedPosition(@, box)]
            IN  SetViewer(Reframe(w, WorldBox(w.meshes[meshRef])))
    /\ UNCHANGED lifeVars

\* the kinds the buttons pass: "reset" (Reset View) takes the else branch
PresetKinds == {"reset", "top", "front"}

\* a top preset that looks along z
PresetPosition_TopAlongZ(kind, c, dist) ==
    IF kind = "top" \/ kind = "front" THEN <<c[1], c[2], c[3] + dist>>
    ELSE <<c[1] + dist, c[2] + dist, c[3] + dist>>

\* camera.position.set(...) of applyViewPreset
PresetPosition(kind, c, dist) ==
    IF kind = "top" THEN <<c[1], c[2] + dist, c[3]>>
    ELSE IF kind = "front" THEN <<c[1], c[2], c[3] + dist>>
    ELSE <<c[1] + dist, c[2] + dist, c[3] + dist>>

\* applyViewPreset(kind): c = viewCenterRef.current, dist = viewDistRef.current || 50
ApplyViewPreset(kind) ==
    /\ viewerOps < MaxViewerOps
    /\ viewerOps' = viewerOps + 1
    /\ lastOp' = kind
    /\ LET c    == viewCenter
           dist == IF viewDist = 0 THEN 50 ELSE viewDist
       IN  IF ~viewerRefs THEN SetViewer(Viewer)
           ELSE SetViewer([Viewer EXCEPT !.camera.position = PresetPosition(kind, c, dist),
                                         !.camera.target = c])
    /\ UNCHANGED lifeVars

\* the release steps of the teardown, in the order they are tried
ReleaseSteps == <<"remove", "geometry", "material", "controls", "renderer">>

\* a teardown that stops at the first step that throws
Released_UntilFirstFailure(failed) ==
    {ReleaseSteps[k] : k \in {j \in 1..Len(ReleaseSteps) :
                                 \A i \in 1..j : ReleaseSteps[i] \notin failed}}

\* the steps that complete when the steps in failed throw: each step has its
\* own try / catch
Released(failed) == {ReleaseSteps[k] : k \in 1..Len(ReleaseSteps)} \ failed

\* 1 when the step completed
Completed(step, failed) == IF step \in Released(failed) THEN 1 ELSE 0

\* the steps that have something to act on: without an active mesh the mesh
\* steps are skipped by `&&` and `?.`
ActingSteps == IF meshRef = 0 THEN {"controls", "renderer"}
               ELSE {ReleaseSteps[k] : k \in 1..Len(ReleaseSteps)}

\* the cleanup of the effect with no dependencies: runs when the panel
\* unmounts, after React has detached mountRef; failed are the steps that throw
Teardown(failed) ==
    /\ mountRef
    /\ viewerOps < MaxViewerOps
    /\ viewerOps' = viewerOps + 1
    /\ lastOp' = "teardown"
    /\ mountRef' = FALSE
    /\ raf' = FALSE
    /\ meshScene' = IF meshRef # 0 /\ "remove" \in Released(failed)
                    THEN meshScene \ {meshRef} ELSE meshScene
    /\ meshDisposals' =
          [m \in MeshIds |->
              IF m = meshRef
              THEN [geometry |-> meshDisposals[m].geometry + Completed("geometry", failed),
                    material |-> meshDisposals[m].material + Completed("material", failed)]
              ELSE meshDisposals[m]]
    /\ released' = [controls |-> released.controls + Completed("controls", failed),
                    renderer |-> released.renderer + Completed("renderer", failed)]
    /\ meshRef' = 0
    /\ viewerRefs' = FALSE
    /\ teardownFailed' = failed
    /\ UNCHANGED <<meshes, rotDeg, lastObjText, viewCenter, viewDist, camera, lastLoad,
                   loadCalls, frames>>

\* the animate callback of a requested frame: renders and requests the next
\* frame, or returns when a reference is missing
AnimateFrame ==
    /\ raf
    /\ viewerOps < MaxViewerOps
    /\ viewerOps' = viewerOps + 1
    /\ lastOp' = "frame"
    /\ IF viewerRefs THEN frames' = frames + 1 /\ raf' = TRUE
       ELSE frames' = frames /\ raf' = FALSE
    /\ UNCHANGED <<meshRef, meshScene, meshes, meshDisposals, rotDeg, lastObjText, viewCenter,
                   viewDist, camera, lastLoad, loadCalls, mountRef, viewerRefs, released,
                   teardownFailed>>

Rotations ==
    {[x |-> rx, y |-> ry, z |-> 0] : rx \in {0, -90}, ry \in {0, 90, -90}}

InitViewer ==
    /\ meshRef = 0
    /\ meshScene = {}
    /\ meshes = << >>
    /\ meshDisposals = [m \in MeshIds |-> [geometry |-> 0, material |-> 0]]
    /\ rotDeg = InitialRot
    /\ lastObjText = << >>
    /\ viewCenter = <<0, 0, 0>>
    /\ viewDist = 50
    /\ camera = [position |-> <<100, 100, 100>>, near1000 |-> 100, far |-> 10000,
                 target |-> <<0, 0, 0>>]
    /\ lastLoad = "none"
    /\ loadCalls = 0
    /\ viewerOps = 0
    /\ lastOp = "none"
    /\ mountRef = TRUE
    /\ viewerRefs = TRUE
    /\ raf = TRUE
    /\ frames = 0
    /\ released = [controls |-> 0, renderer |-> 0]
    /\ teardownFailed = {}

(***************************************************************************)
(* RegionSelector: geodesy.  Angles are whole arcs of MetersPerUnit metres *)
(* on a sphere whose half circumference is HalfTurn such arcs; longitudes  *)
(* lie in [-HalfTurn, HalfTurn].  Anchors lie on the equator, where the    *)
(* east-west geodesic is the shorter equatorial arc; a north-south         *)
(* geodesic is the meridian arc.                                           *)
(***************************************************************************)
MetersPerUnit == 1000

HalfTurn == 20000

Min2(x, y) == IF x <= y THEN x ELSE y

\* Math.sign
Sign(x) == IF x > 0 THEN 1 ELSE IF x < 0 THEN -1 ELSE 0

NoCarto == [null |-> TRUE, longitude |-> 0, latitude |-> 0]

Carto(lon, lat) == [null |-> FALSE, longitude |-> lon, latitude |-> lat]

\* new Cesium.EllipsoidGeodesic(p, q).surfaceDistance, in metres, for the two
\* shapes clampToMax10km uses: p, q on the equator, or p, q on one meridian
SurfaceDistance(p, q) ==
    IF p.longitude = q.longitude
    THEN MetersPerUnit * Abs(q.latitude - p.latitude)
    ELSE MetersPerUnit * Min2(Abs(q.longitude - p.longitude),
                              2 * HalfTurn - Abs(q.longitude - p.longitude))

(***************************************************************************)
(* RegionSelector: clampToMax10km                                          *)
(***************************************************************************)
max == 10000

eps == 1

\* Math.sign(d) || 1
SignOr1(d) == IF Sign(d) = 0 THEN 1 ELSE Sign(d)

\* a + (b - a) * ratio * sign with ratio = max / dist, rounded to the grid
ScaledCoordinate(a, b, dist) == a + ((b - a) * SignOr1(b - a) * max) \div dist

\* both axes scaled by the ratio of the longer one
ScaledLive_Uniform(a, b) ==
    LET dx == Abs(SurfaceDistance(Carto(a.longitude, a.latitude), Carto(b.longitude, a.latitude)))
        dy == Abs(SurfaceDistance(Carto(a.longitude, a.latitude), Carto(a.longitude, b.latitude)))
        d  == Max2(dx, dy)
    IN  IF d > max
        THEN [longitude |-> ScaledCoordinate(a.longitude, b.longitude, d),
              latitude  |-> ScaledCoordinate(a.latitude, b.latitude, d)]
        ELSE [longitude |-> b.longitude, latitude |-> b.latitude]

\* lon and lat after the two `if (d > max)` blocks
ScaledLive(a, b) ==
    LET lonB == b.longitude
        latB == b.latitude
        dx   == Abs(SurfaceDistance(Carto(a.longitude, a.latitude), Carto(lonB, a.latitude)))
        dy   == Abs(SurfaceDistance(Carto(a.longitude, a.latitude), Carto(a.longitude, latB)))
    IN  [longitude |-> IF dx > max THEN ScaledCoordinate(a.longitude, lonB, dx) ELSE lonB,
         latitude  |-> IF dy > max THEN ScaledCoordinate(a.latitude, latB, dy) ELSE latB]

\* min / max of the anchor and the scaled point, without the minimum side
ClampToMax10km_NoEpsilon(a, b) ==
    LET lon == ScaledLive(a, b).longitude
        lat == ScaledLive(a, b).latitude
    IN  [west |-> Min2(a.longitude, lon), south |-> Min2(a.latitude, lat),
         east |-> Max2(a.longitude, lon), north |-> Max2(a.latitude, lat)]

ClampToMax10km(a, b) ==
    LET lon  == ScaledLive(a, b).longitude
        lat  == ScaledLive(a, b).latitude
        west  == Min2(a.longitude, lon)
        east0 == Max2(a.longitude, lon)
        south == Min2(a.latitude, lat)
        north0 == Max2(a.latitude, lat)
        east  == IF east0 - west < eps THEN west + eps ELSE east0
        north == IF north0 - south < eps THEN south + eps ELSE north0
    IN  [west |-> west, south |-> south, east |-> east, north |-> north]

\* Cesium.Rectangle.fromDegrees(-180, -85, 180, 85)
FallbackRectangle ==
    [west |-> 0 - HalfTurn, south |-> 0 - (85 * HalfTurn) \div 180,
     east |-> HalfTurn, north |-> (85 * HalfTurn) \div 180]

\* a callback that keeps returning the first rectangle it computed
PreviewCallback_Cached ==
    IF preview.rect # [west |-> 0, south |-> 0, east |-> 0, north |-> 0] THEN preview.rect
    ELSE IF ~startCarto.null /\ ~lastCarto.null
    THEN ClampToMax10km(startCarto, lastCarto)
    ELSE FallbackRectangle

\* makePreviewCallback
PreviewCallback ==
    IF ~startCarto.null /\ ~lastCarto.null
    THEN ClampToMax10km(startCarto, lastCarto)
    ELSE FallbackRectangle

(***************************************************************************)
(* RegionSelector: the pointer handlers                                    *)
(***************************************************************************)
\* what toCartographicFromScreen resolves a LEFT_DOWN position to
AnchorPoints == {Carto(0, 0), Carto(19990, 0)}

\* what toCartographicFromScreen resolves a MOUSE_MOVE position to
LivePoints ==
    {Carto(-19990, 0), Carto(-50, -3), Carto(-50, 30), Carto(-4, -3), Carto(0, 0),
     Carto(0, -30), Carto(6, 30), Carto(6, 3), Carto(50, 0), Carto(50, -30)}

NoRect == [west |-> 0, south |-> 0, east |-> 0, north |-> 0]

\* LEFT_DOWN: carto is the resolved pointer position, NoCarto when unresolved
LeftDown(carto) ==
    /\ drags < MaxDrags
    /\ drags' = drags + 1
    /\ startCarto' = carto
    /\ dragging' = ~carto.null
    /\ IF ~carto.null
       THEN /\ lastCarto' = carto
            /\ enableInputs' = FALSE
            /\ rectangle' = [kind |-> "callback", rect |-> NoRect]
       ELSE UNCHANGED <<lastCarto, enableInputs, rectangle>>
    /\ UNCHANGED <<preview, emitted, lastAoi>>

\* a MOUSE_MOVE that also reports the rectangle
MouseMove_Finalizing(carto) ==
    /\ dragging /\ ~startCarto.null
    /\ ~carto.null
    /\ lastCarto' = carto
    /\ emitted' = [emitted EXCEPT !.count = @ + 1, !.b = carto]
    /\ UNCHANGED <<dragging, startCarto, enableInputs, rectangle, preview, lastAoi, drags>>

\* MOUSE_MOVE
MouseMove(carto) ==
    /\ dragging /\ ~startCarto.null
    /\ ~carto.null
    /\ lastCarto' = carto
    /\ UNCHANGED <<dragging, startCarto, enableInputs, rectangle, preview, emitted,
                   lastAoi, drags>>

\* a frame in which Cesium evaluates the CallbackProperty of the rectangle
PreviewFrame ==
    /\ rectangle.kind = "callback"
    /\ preview' = [rect |-> PreviewCallback, a |-> startCarto, b |-> lastCarto]
    /\ UNCHANGED <<dragging, startCarto, lastCarto, enableInputs, rectangle, emitted,
                   lastAoi, drags>>

\* widthDeg > 120 || heightDeg > 120
TooBig(rect) ==
    \/ (rect.east - rect.west) * 180 > 120 * HalfTurn
    \/ (rect.north - rect.south) * 180 > 120 * HalfTurn

\* Cesium.Math.toDegrees of an angle, as a fraction
ToDegrees(x) == Ratio(x * 180, HalfTurn)

\* [west, south, east, north] in degrees
BboxDegrees(rect) ==
    <<ToDegrees(rect.west), ToDegrees(rect.south), ToDegrees(rect.east), ToDegrees(rect.north)>>

\* LEFT_UP
LeftUp ==
    /\ dragging /\ ~startCarto.null /\ ~lastCarto.null
    /\ dragging' = FALSE
    /\ enableInputs' = TRUE
    /\ LET rect == ClampToMax10km(startCarto, lastCarto)
       IN  /\ rectangle' = [kind |-> "constant", rect |-> rect]
           /\ lastAoi' = IF TooBig(rect) THEN lastAoi ELSE rect
           /\ emitted' = [count |-> emitted.count + 1, rect |-> rect,
                          a |-> startCarto, b |-> lastCarto, bbox |-> BboxDegrees(rect)]
    /\ UNCHANGED <<startCarto, lastCarto, preview, drags>>

InitSelector ==
    /\ dragging = FALSE
    /\ startCarto = NoCarto
    /\ lastCarto = NoCarto
    /\ enableInputs = TRUE
    /\ rectangle = [kind |-> "none", rect |-> NoRect]
    /\ preview = [rect |-> NoRect, a |-> NoCarto, b |-> NoCarto]
    /\ emitted = [count |-> 0, rect |-> NoRect, a |-> NoCarto, b |-> NoCarto,
                  bbox |-> BboxDegrees(NoRect)]
    /\ lastAoi = NoRect
    /\ drags = 0

(***************************************************************************)
(* OBJParser on one text: parseOBJ, createGeometry, getGeometryInfo        *)
(***************************************************************************)
\* a bounding box that always contains the origin
BoundingBox_WithOrigin(parsed) ==
    LET pts == VertexPoints(parsed) \cup {<<0, 0, 0>>}
    IN  [isEmpty |-> FALSE,
         min |-> [i \in 1..3 |-> SetMin({q[i] : q \in pts})],
         max |-> [i \in 1..3 |-> SetMax({q[i] : q \in pts})]]

\* geometry.computeBoundingBox(): the box of the position attribute, the
\* empty box when there is no vertex
BoundingBox(parsed) ==
    LET pts == VertexPoints(parsed)
    IN  IF pts = {} THEN [isEmpty |-> TRUE, min |-> <<0, 0, 0>>, max |-> <<0, 0, 0>>]
        ELSE [isEmpty |-> FALSE,
              min |-> [i \in 1..3 |-> SetMin({q[i] : q \in pts})],
              max |-> [i \in 1..3 |-> SetMax({q[i] : q \in pts})]]

\* getGeometryInfo(createGeometry(parsed)): position.count, index.count / 3, bounds
GetGeometryInfo(parsed) ==
    [vertices |-> Len(parsed.vertices) \div 3,
     faces    |-> Len(parsed.faces) \div 3,
     bounds   |-> BoundingBox(parsed)]

\* the lines of a mesh: a vertex, a face (plain "i" or "i/i" tokens), a comment
VertexEntry(x, y, z) == [kind |-> "v", p |-> <<x, y, z>>, idx |-> << >>, slashed |-> FALSE]

FaceEntry(idx, slashed) == [kind |-> "f", p |-> <<0, 0, 0>>, idx |-> idx, slashed |-> slashed]

CommentEntry == [kind |-> "#", p |-> <<0, 0, 0>>, idx |-> << >>, slashed |-> FALSE]

\* the line of text an exporter writes for an entry, as its tokens
LineOf(e) ==
    IF e.kind = "v" THEN VLine(e.p[1], e.p[2], e.p[3])
    ELSE IF e.kind = "f"
    THEN << <<"f">> >> \o [k \in 1..Len(e.idx) |->
                              IF e.slashed THEN Tok(e.idx[k]) \o <<"/">> \o Tok(e.idx[k])
                              ELSE Tok(e.idx[k])]
    ELSE CommentLine

TextOf(mesh) == [k \in 1..Len(mesh) |-> LineOf(mesh[k])]

Entries ==
    { VertexEntry(0, 0, 0), VertexEntry(4, 2, -2), VertexEntry(-4, 6, 8),
      FaceEntry(<<1>>, FALSE), FaceEntry(<<1, 2>>, FALSE), FaceEntry(<<3, 2, 1>>, FALSE),
      FaceEntry(<<1, 2, 3, 4>>, TRUE), FaceEntry(<<1, 2, 3, 4, 5>>, FALSE),
      CommentEntry }

\* the cube with corners (0, 0, 0) and (2, 2, 2): 8 vertices, 6 quads
Cube ==
    << VertexEntry(0, 0, 0), VertexEntry(2, 0, 0), VertexEntry(2, 2, 0), VertexEntry(0, 2, 0),
       VertexEntry(0, 0, 2), VertexEntry(2, 0, 2), VertexEntry(2, 2, 2), VertexEntry(0, 2, 2),
       FaceEntry(<<1, 2, 3, 4>>, FALSE), FaceEntry(<<5, 6, 7, 8>>, FALSE),
       FaceEntry(<<1, 2, 6, 5>>, FALSE), FaceEntry(<<2, 3, 7, 6>>, FALSE),
       FaceEntry(<<3, 4, 8, 7>>, FALSE), FaceEntry(<<4, 1, 5, 8>>, FALSE) >>

NotParsed ==
    [parsed |-> [vertices |-> << >>, faces |-> << >>],
     info   |-> [vertices |-> 0, faces |-> 0,
                 bounds |-> [isEmpty |-> TRUE, min |-> <<0, 0, 0>>, max |-> <<0, 0, 0>>]]]

InitParse ==
    /\ parseMesh \in SeqsUpTo(Entries, MaxLines) \cup {Cube}
    /\ parseIn = TextOf(parseMesh)
    /\ parseOut = NotParsed
    /\ parsePc = "in"

IdleParse ==
    /\ parseMesh = << >>
    /\ parseIn = << >>
    /\ parseOut = NotParsed
    /\ parsePc = "out"

\* parseOBJ(text), then getGeometryInfo(createGeometry(...))
Parse ==
    /\ parsePc = "in"
    /\ parseOut' = [parsed |-> ParseOBJ(parseIn), info |-> GetGeometryInfo(ParseOBJ(parseIn))]
    /\ parsePc' = "out"
    /\ UNCHANGED <<parseMesh, parseIn>>

(***************************************************************************)
(* renderBbox: what the extrusion loop and the roads / parks / water loop  *)
(* add to the four groups for one feature of the response                  *)
(***************************************************************************)
HighwayTags == {"", "residential"}

BuildingTags == {"", "yes"}

\* leisure / landuse, and natural / waterway
GreenTags == {<<"", "">>, <<"park", "">>, <<"", "grass">>}

WaterTags == {<<"", "">>, <<"water", "">>, <<"", "riverbank">>}

Geometries == {NoGeometry, PolygonGeom, MultiPolygonGeom, LineGeom, PointGeom}

TaggedFeatures ==
    { Feature([NoProps EXCEPT !.highway = h, !.building = b, !.leisure = g[1], !.landuse = g[2],
                              !.natural = w[1], !.waterway = w[2]], geom) :
        h \in HighwayTags, b \in BuildingTags, g \in GreenTags, w \in WaterTags,
        geom \in Geometries }

NoChildren == [l \in Layers |-> 0]

InitClassify ==
    /\ clsIn \in TaggedFeatures
    /\ clsOut = NoChildren
    /\ clsPc = "in"

IdleClassify ==
    /\ clsIn = Feature(NoProps, NoGeometry)
    /\ clsOut = NoChildren
    /\ clsPc = "out"

\* the buildings filter, the extrusion loop and the second loop, for a response
\* in which the feature is accompanied by one plain building footprint (so that
\* the build does not return before the loops); the footprint's own mesh is
\* not counted
ClassifyFeature ==
    /\ clsPc = "in"
    /\ clsOut' = [l \in Layers |->
                     GroupChildren(<<FShed, clsIn>>)[l] - GroupChildren(<<FShed>>)[l]]
    /\ clsPc' = "out"
    /\ UNCHANGED clsIn

(***************************************************************************)
(* renderBbox: the bounds of the extruded buildings, the recentering of    *)
(* the four groups and the camera, for one response and one region         *)
(***************************************************************************)
Ring4 == << <<2, 2>>, <<4, 2>>, <<4, 4>>, <<2, 4>> >>

\* a tall building away from the others
FTower ==
    Feature([NoProps EXCEPT !.building = "yes", !.height = <<"9", "9">>],
            [type |-> "Polygon", coordinates |-> <<Ring4>>])

RecenterFeatures == {FBuilding, FTower, FBuildingPoint, FRoad, FPark}

RecenterRegions == {<<-4, -4, 4, 4>>, <<0, -4, 4, 4>>, <<-4, 2, 4, 2>>}

Origin == <<RNum(0), RNum(0), RNum(0)>>

\* box.getCenter(): (min + max) / 2 on each axis
GetCenter(box) ==
    [i \in 1..3 |-> Ratio(box.min[i].num * box.max[i].den + box.max[i].num * box.min[i].den,
                          2 * box.min[i].den * box.max[i].den)]

\* a recentering that moves the buildings only
GroupPosition_BuildingsOnly(l, center) ==
    IF l = "buildings" THEN [i \in 1..3 |-> RNeg(center[i])] ELSE Origin

\* group.position.sub(center) on a new group, whose position is (0, 0, 0)
GroupPosition(l, center) == [i \in 1..3 |-> RNeg(center[i])]

NotInstalled ==
    [installed |-> FALSE, overallBB |-> [min |-> Origin, max |-> Origin],
     position |-> [l \in Layers |-> Origin], camera |-> InitialCamera]

InitRecenter ==
    /\ rcIn \in SeqsUpTo(RecenterFeatures, MaxRecenterFeatures)
    /\ rcBbox \in RecenterRegions
    /\ rcOut = NotInstalled
    /\ rcPc = "in"

IdleRecenter ==
    /\ rcIn = << >>
    /\ rcBbox = <<0, 0, 0, 0>>
    /\ rcOut = NotInstalled
    /\ rcPc = "out"

\* renderBbox behind its fetch, on a mounted viewer: the early returns, then
\* overallBB, center, the four position.sub(center), the camera and its target
Recenter ==
    /\ rcPc = "in"
    /\ rcPc' = "out"
    /\ LET boxes     == StructureBoxes(rcIn, rcBbox)
           overallBB == OverallBB(boxes)
           center    == GetCenter(overallBB)
           dist      == CameraDistance(overallBB)
       IN  rcOut' = IF Len(rcIn) = 0 \/ Len(SelectSeq(rcIn, IsBuildingTagged)) = 0 \/ boxes = {}
                    THEN NotInstalled
                    ELSE [installed |-> TRUE, overallBB |-> overallBB,
                          position  |-> [l \in Layers |-> GroupPosition(l, center)],
                          camera    |-> [position |-> <<dist, dist, dist>>, target |-> Origin]]
    /\ UNCHANGED <<rcIn, rcBbox>>

(***************************************************************************)
(* GrasshopperRenderPanel: requestObjFromViewer, requestSnapshot and       *)
(* renderFromSchema.  Every invocation of renderFromSchema makes one       *)
(* export request and, when the export fails, one snapshot request; the    *)
(* request identifier of an invocation's requests is the invocation's      *)
(* number, and 0 is an identifier that no request of the panel carries     *)
(***************************************************************************)
Runs == 1..MaxRuns

ResponseIds == {0} \cup Runs

\* the state of a request before its call
NotRequested ==
    [state |-> "unsent", listener |-> FALSE, done |-> FALSE, timer |-> FALSE, calls |-> 0,
     value |-> "none", objText |-> << >>]

\* new Promise(...): listener added, request dispatched, timer of RequestTimeoutMs set
Requested == [NotRequested EXCEPT !.state = "pending", !.listener = TRUE, !.timer = TRUE]

RequestTimeoutMs == 3000

\* resolve(value): only the first call settles the promise
Resolve(rq, value, text) ==
    [rq EXCEPT !.calls = @ + 1,
               !.state = "resolved",
               !.value = IF rq.state = "resolved" THEN @ ELSE value,
               !.objText = IF rq.state = "resolved" THEN @ ELSE text]

\* detail objects of the "grasshopper:obj" event, without their requestId
ExportDetails ==
    {[ok |-> TRUE, isString |-> TRUE, objText |-> TextTriangle],
     [ok |-> TRUE, isString |-> TRUE, objText |-> TextComment],
     [ok |-> TRUE, isString |-> TRUE, objText |-> << >>],
     [ok |-> FALSE, isString |-> FALSE, objText |-> << >>]}

\* detail objects of the "grasshopper:render-snapshot" event, without their requestId
SnapshotDetails ==
    {[ok |-> TRUE, dataUrl |-> "data:image/png"],
     [ok |-> TRUE, dataUrl |-> ""],
     [ok |-> FALSE, dataUrl |-> ""]}

\* detail.ok && typeof detail.objText === "string" && detail.objText.trim()
ExportOk(detail) == detail.ok /\ detail.isString /\ Len(detail.objText) > 0

\* detail.ok && detail.dataUrl
SnapshotOk(detail) == detail.ok /\ detail.dataUrl # ""

\* a listener that neither sets done nor removes itself
OnResponse_KeepsListening(rq, requestId, id, value, text) ==
    IF ~rq.listener \/ id # requestId THEN rq ELSE Resolve(rq, value, text)

\* onObj / onSnap of the request with identifier requestId, on an event whose
\* detail carries id: nothing without the listener
OnResponse(rq, requestId, id, value, text) ==
    IF ~rq.listener \/ id # requestId THEN rq
    ELSE Resolve([rq EXCEPT !.done = TRUE, !.listener = FALSE], value, text)

\* a timer callback that never resolves
OnTimeout_Silent(rq, value) == [rq EXCEPT !.timer = FALSE]

\* the timer callback of a request
OnTimeout(rq, value) ==
    IF rq.done THEN [rq EXCEPT !.timer = FALSE]
    ELSE Resolve([rq EXCEPT !.timer = FALSE, !.listener = FALSE], value, << >>)

\* the invocations whose promise this step settled
Settled(before, after) ==
    {r \in Runs : before[r].state = "pending" /\ after[r].state = "resolved"}

\* renderFromSchema after `await requestObjFromViewer()` of invocation r gave
\* res: the load of the text, or the snapshot request
AfterExport(r, res) ==
    IF res.value = "ok" /\ Len(res.objText) > 0
    THEN /\ IF NoUsableGeometry(ParseOBJ(res.objText))
            THEN /\ status' = "Error"
                 /\ lastError' = "OBJ contains no vertices/faces"
                 /\ rfResult' = [rfResult EXCEPT ![r] = "false"]
            ELSE /\ status' = "Ready"
                 /\ lastError' = ""
                 /\ rfResult' = [rfResult EXCEPT ![r] = "true"]
         /\ rfPc' = [rfPc EXCEPT ![r] = "returned"]
         /\ UNCHANGED snapReq
    ELSE /\ status' = "Rendering snapshot"
         /\ lastError' = ""
         /\ snapReq' = [snapReq EXCEPT ![r] = Requested]
         /\ rfPc' = [rfPc EXCEPT ![r] = "snapshot"]
         /\ UNCHANGED rfResult

\* renderFromSchema after `await requestSnapshot()`
AfterSnapshot(r) ==
    /\ rfPc' = [rfPc EXCEPT ![r] = "returned"]
    /\ rfResult' = [rfResult EXCEPT ![r] = "false"]

InitRequest ==
    /\ rfPc = [r \in Runs |-> "idle"]
    /\ rfResult = [r \in Runs |-> "none"]
    /\ objReq = [r \in Runs |-> NotRequested]
    /\ snapReq = [r \in Runs |-> NotRequested]
    /\ status = ""
    /\ lastError = ""
    /\ imgUrl = ""
    /\ lastEvent = [type |-> "none", requestId |-> 0]
    /\ events = 0

\* "grasshopper:result": renderFromSchema starts and awaits requestObjFromViewer()
OnGhResult(r) ==
    /\ rfPc[r] = "idle"
    /\ \A q \in Runs : q < r => rfPc[q] # "idle"
    /\ rfPc' = [rfPc EXCEPT ![r] = "export"]
    /\ objReq' = [objReq EXCEPT ![r] = Requested]
    /\ status' = "Exporting OBJ"
    /\ lastError' = ""
    /\ lastEvent' = [type |-> "result", requestId |-> r]
    /\ UNCHANGED <<rfResult, snapReq, imgUrl, events>>

\* the viewer dispatches "grasshopper:obj" with requestId id: every attached
\* onObj runs, then the invocation whose promise was settled continues
ObjResponse(id, detail) ==
    /\ events < MaxEvents
    /\ events' = events + 1
    /\ lastEvent' = [type |-> "obj", requestId |-> id, detail |-> detail]
    /\ objReq' = [r \in Runs |->
                     OnResponse(objReq[r], r, id,
                                IF ExportOk(detail) THEN "ok" ELSE "failed",
                                IF ExportOk(detail) THEN detail.objText ELSE << >>)]
    /\ IF Settled(objReq, objReq') = {}
       THEN UNCHANGED <<rfPc, rfResult, snapReq, status, lastError>>
       ELSE LET r == CHOOSE q \in Settled(objReq, objReq') : TRUE
            IN  AfterExport(r, objReq'[r])
    /\ UNCHANGED imgUrl

\* the timer of invocation r's export request fires
ObjTimeout(r) ==
    /\ objReq[r].timer
    /\ lastEvent' = [type |-> "objTimeout", requestId |-> r]
    /\ objReq' = [objReq EXCEPT ![r] = OnTimeout(@, "timeout")]
    /\ IF Settled(objReq, objReq') = {}
       THEN UNCHANGED <<rfPc, rfResult, snapReq, status, lastError>>
       ELSE AfterExport(r, objReq'[r])
    /\ UNCHANGED <<imgUrl, events>>

\* the viewer dispatches "grasshopper:render-snapshot" with requestId id
SnapshotResponse(id, detail) ==
    /\ events < MaxEvents
    /\ events' = events + 1
    /\ lastEvent' = [type |-> "snapshot", requestId |-> id, detail |-> detail]
    /\ snapReq' = [r \in Runs |->
                      OnResponse(snapReq[r], r, id,
                                 IF SnapshotOk(detail) THEN "true" ELSE "false", << >>)]
    /\ IF Settled(snapReq, snapReq') = {}
       THEN UNCHANGED <<rfPc, rfResult, status, lastError, imgUrl>>
       ELSE LET r == CHOOSE q \in Settled(snapReq, snapReq') : TRUE
            IN  /\ IF SnapshotOk(detail)
                   THEN /\ imgUrl' = detail.dataUrl
                        /\ status' = "Ready"
                        /\ UNCHANGED lastError
                   ELSE /\ lastError' = "Snapshot failed"
                        /\ status' = "Error"
                        /\ UNCHANGED imgUrl
                /\ AfterSnapshot(r)
    /\ UNCHANGED objReq

\* the timer of invocation r's snapshot request fires
SnapshotTimeout(r) ==
    /\ snapReq[r].timer
    /\ lastEvent' = [type |-> "snapshotTimeout", requestId |-> r]
    /\ snapReq' = [snapReq EXCEPT ![r] = OnTimeout(@, "false")]
    /\ IF Settled(snapReq, snapReq') = {}
       THEN UNCHANGED <<rfPc, rfResult, status, lastError>>
       ELSE /\ lastError' = "Snapshot timeout (viewer did not respond)"
            /\ status' = "Error"
            /\ AfterSnapshot(r)
    /\ UNCHANGED <<objReq, imgUrl, events>>

(***************************************************************************)
(* Specifications                                                          *)
(***************************************************************************)
IdlePure == IdleCap /\ IdleProject /\ IdleParse /\ IdleClassify /\ IdleRecenter /\ InitRequest

Init == InitScene /\ IdleHeight /\ InitViewer /\ InitSelector /\ IdlePure

Next ==
    \/ (\E data \in Messages : OnMessage(data))
          /\ UNCHANGED <<heightVars, viewerVars, selVars, pureVars>>
    \/ (\E b \in Builds, resp \in Responses : RenderBboxResume(b, resp))
          /\ UNCHANGED <<heightVars, viewerVars, selVars, pureVars>>
    \/ Unmount /\ UNCHANGED <<heightVars, viewerVars, selVars, pureVars>>

Spec == Init /\ [][Next]_vars

InitH == InitHeight /\ InitScene /\ InitViewer /\ InitSelector /\ IdlePure

NextH == EstimateHeight /\ UNCHANGED <<sceneVars, viewerVars, selVars, pureVars>>

SpecHeight == InitH /\ [][NextH]_vars

InitV == InitViewer /\ InitScene /\ IdleHeight /\ InitSelector /\ IdlePure

NextV ==
    \/ (\E t \in MeshTexts : LoadMesh(t))
          /\ UNCHANGED <<sceneVars, heightVars, selVars, pureVars>>
    \/ Refresh /\ UNCHANGED <<sceneVars, heightVars, selVars, pureVars>>
    \/ (\E r \in Rotations : ApplyRotationToMesh(r))
          /\ UNCHANGED <<sceneVars, heightVars, selVars, pureVars>>
    \/ CenterAndGround /\ UNCHANGED <<sceneVars, heightVars, selVars, pureVars>>
    \/ (\E kind \in PresetKinds : ApplyViewPreset(kind))
          /\ UNCHANGED <<sceneVars, heightVars, selVars, pureVars>>

SpecViewer == InitV /\ [][NextV]_vars

NextT ==
    \/ (\E t \in MeshTexts : LoadMesh(t))
          /\ UNCHANGED <<sceneVars, heightVars, selVars, pureVars>>
    \/ Refresh /\ UNCHANGED <<sceneVars, heightVars, selVars, pureVars>>
    \/ (\E r \in Rotations : ApplyRotationToMesh(r))
          /\ UNCHANGED <<sceneVars, heightVars, selVars, pureVars>>
    \/ CenterAndGround /\ UNCHANGED <<sceneVars, heightVars, selVars, pureVars>>
    \/ (\E kind \in PresetKinds : ApplyViewPreset(kind))
          /\ UNCHANGED <<sceneVars, heightVars, selVars, pureVars>>
    \/ (\E failed \in SUBSET ActingSteps : Teardown(failed))
          /\ UNCHANGED <<sceneVars, heightVars, selVars, pureVars>>
    \/ AnimateFrame /\ UNCHANGED <<sceneVars, heightVars, selVars, pureVars>>

SpecTeardown == InitV /\ [][NextT]_vars

InitS == InitSelector /\ InitScene /\ IdleHeight /\ InitViewer /\ IdlePure

NextS ==
    \/ (\E c \in AnchorPoints \cup {NoCarto} : LeftDown(c))
          /\ UNCHANGED <<sceneVars, heightVars, viewerVars, pureVars>>
    \/ (\E c \in LivePoints : MouseMove(c))
          /\ UNCHANGED <<sceneVars, heightVars, viewerVars, pureVars>>
    \/ PreviewFrame /\ UNCHANGED <<sceneVars, heightVars, viewerVars, pureVars>>
    \/ LeftUp /\ UNCHANGED <<sceneVars, heightVars, viewerVars, pureVars>>

SpecSelector == InitS /\ [][NextS]_vars

InitC ==
    InitCap /\ IdleProject /\ IdleParse /\ IdleClassify /\ IdleRecenter
        /\ InitScene /\ IdleHeight /\ InitViewer /\ InitSelector /\ InitRequest

NextC ==
    RankAndExtrude /\ UNCHANGED <<sceneVars, heightVars, viewerVars, selVars, reqVars, projVars, parseVars,
                                  clsVars, rcVars>>

SpecCap == InitC /\ [][NextC]_vars

InitP ==
    InitProject /\ IdleCap /\ IdleParse /\ IdleClassify /\ IdleRecenter
        /\ InitScene /\ IdleHeight /\ InitViewer /\ InitSelector /\ InitRequest

NextP ==
    Project /\ UNCHANGED <<sceneVars, heightVars, viewerVars, selVars, reqVars, capVars, parseVars,
                           clsVars, rcVars>>

SpecProject == InitP /\ [][NextP]_vars

InitM ==
    InitParse /\ IdleCap /\ IdleProject /\ IdleClassify /\ IdleRecenter
        /\ InitScene /\ IdleHeight /\ InitViewer /\ InitSelector /\ InitRequest

NextM ==
    Parse /\ UNCHANGED <<sceneVars, heightVars, viewerVars, selVars, reqVars, capVars, projVars,
                         clsVars, rcVars>>

SpecParse == InitM /\ [][NextM]_vars

InitF ==
    InitClassify /\ IdleCap /\ IdleProject /\ IdleParse /\ IdleRecenter
        /\ InitScene /\ IdleHeight /\ InitViewer
        /\ InitSelector /\ InitRequest

NextF ==
    ClassifyFeature /\ UNCHANGED <<sceneVars, heightVars, viewerVars, selVars, reqVars, capVars,
                                   projVars, parseVars, rcVars>>

SpecClassify == InitF /\ [][NextF]_vars

InitR ==
    InitRecenter /\ IdleCap /\ IdleProject /\ IdleParse /\ IdleClassify
        /\ InitScene /\ IdleHeight /\ InitViewer /\ InitSelector /\ InitRequest

NextR ==
    Recenter /\ UNCHANGED <<sceneVars, heightVars, viewerVars, selVars, reqVars, capVars, projVars,
                            parseVars, clsVars>>

SpecRecenter == InitR /\ [][NextR]_vars

InitQ == InitRequest /\ IdleCap /\ IdleProject /\ IdleParse /\ IdleClassify /\ IdleRecenter
            /\ InitScene /\ IdleHeight /\ InitViewer /\ InitSelector

NextQ ==
    \/ (\E r \in Runs : OnGhResult(r))
          /\ UNCHANGED <<sceneVars, heightVars, viewerVars, selVars, capVars, projVars,
                         parseVars, clsVars, rcVars>>
    \/ (\E id \in ResponseIds, detail \in ExportDetails : ObjResponse(id, detail))
          /\ UNCHANGED <<sceneVars, heightVars, viewerVars, selVars, capVars, projVars,
                         parseVars, clsVars, rcVars>>
    \/ (\E r \in Runs : ObjTimeout(r))
          /\ UNCHANGED <<sceneVars, heightVars, viewerVars, selVars, capVars, projVars,
                         parseVars, clsVars, rcVars>>
    \/ (\E id \in ResponseIds, detail \in SnapshotDetails : SnapshotResponse(id, detail))
          /\ UNCHANGED <<sceneVars, heightVars, viewerVars, selVars, capVars, projVars,
                         parseVars, clsVars, rcVars>>
    \/ (\E r \in Runs : SnapshotTimeout(r))
          /\ UNCHANGED <<sceneVars, heightVars, viewerVars, selVars, capVars, projVars,
                         parseVars, clsVars, rcVars>>

SpecRequest == InitQ /\ [][NextQ]_vars

\* a timer set with window.setTimeout always fires
TimersFire ==
    \A r \in Runs : WF_reqVars(ObjTimeout(r)) /\ WF_reqVars(SnapshotTimeout(r))

SpecRequestFair == SpecRequest /\ TimersFire

(***************************************************************************)
(* Claims: SceneBuilder                                                    *)
(***************************************************************************)
GroupsOfLayer(l) == {g \in scene : g[2] = l}

\* C1: at every moment the scene holds at most one geometry group per layer,
\* for every sequence and interleaving of builds.
C1_OneGroupPerLayer == \A l \in Layers : Cardinality(GroupsOfLayer(l)) <= 1

EmptyOutcomes == {"noFeatures", "noBuildings", "noGeometry"}

\* C2: a build that finds no Structure feature (or produces no Structure
\* geometry) leaves the scene state it found unchanged: same groups in the
\* scene, same groups tracked, nothing disposed.  Stated for a build that ran
\* alone (no other build pending when it was called, none called after it).
C2_EmptyBuildKeepsScene ==
    \A b \in Builds :
        (outcome[b] \in EmptyOutcomes /\ started = b /\ atStart[b].pending = {})
            => /\ scene = atStart[b].scene
               /\ groupsRef = atStart[b].groupsRef
               /\ disposals = atStart[b].disposals

\* C5: every group a build has created is either the group tracked for its
\* layer or has been disposed.
C5_NoLeak ==
    \A g \in DOMAIN created : groupsRef[g[2]] = g[1] \/ disposals[g] >= 1

\* C6: no geometry group (hence none of the geometries and materials the
\* traversal of the group disposes) is disposed more than once.
C6_NoDoubleFree == \A g \in GroupIds : disposals[g] <= 1

\* the groups of two different builds have each been disposed
C6_Witness ==
    \E g1 \in GroupIds, g2 \in GroupIds :
        g1[1] # g2[1] /\ disposals[g1] = 1 /\ disposals[g2] = 1

\* west = east or south = north
Degenerate(bbox) == bbox[1] = bbox[3] \/ bbox[2] = bbox[4]

\* C13: a build request whose region has west = east or south = north is
\* rejected before anything else happens: no fetch is ever in flight for it.
C13_DegenerateRejected ==
    \A b \in Builds : pc[b] = "fetch" => ~Degenerate(bboxOf[b])

\* the step in which build b resumes from its fetch and runs to its end
ResumeStep(b) == pc[b] = "fetch" /\ pc'[b] = "done"

FailedFetch == {"rejected", "notOk"}

\* C21: a build whose fetch fails (rejected request or non-OK response) is
\* treated like a build whose fetch returns zero features: each of them leaves
\* the scene, the tracked groups and the camera position and target as they
\* were when the fetch ended, so they end in the same state.
C21_FailedFetchLikeEmpty ==
    [][\A b \in Builds :
          (ResumeStep(b) /\ fetched'[b] \in FailedFetch \cup {"empty"})
              => UNCHANGED <<scene, groupsRef, sceneCamera>>]_vars

\* a fetch was rejected while the groups of an earlier build were in the scene
C21_Witness ==
    \E a \in Builds, b \in Builds :
        /\ outcome[a] = "installed"
        /\ fetched[b] = "rejected"
        /\ pc[b] = "done"
        /\ scene = {a} \X Layers
        /\ sceneCamera # InitialCamera

\* for each build, all four of its groups are in the scene or none is
AllOrNone(sc) ==
    \A b \in Builds : ({b} \X Layers) \subseteq sc \/ ({b} \X Layers) \cap sc = {}

\* C22: a scene is never partially applied: between events, for each build
\* all four of its layer groups are in the scene or none of them is, and a
\* build given no data adds no group and does not move the camera.
C22_NeverPartial ==
    [][/\ AllOrNone(scene')
       /\ \A b \in Builds :
             (ResumeStep(b) /\ fetched'[b] # "data")
                 => (scene' \subseteq scene /\ sceneCamera' = sceneCamera)]_vars

\* a build whose response had no park installed all four groups
C22_Witness ==
    \E b \in Builds :
        /\ outcome[b] = "installed"
        /\ ({b} \X Layers) \subseteq scene
        /\ created[<<b, "buildings">>] > 0
        /\ created[<<b, "parks">>] = 0

\* C37: when the viewer was torn down while a build was suspended at its
\* fetch, the build's continuation adds no group to the scene, records no
\* tracked groups and raises no error.
C37_TornDownBuildInstallsNothing ==
    [][\A b \in Builds :
           (ResumeStep(b) /\ ~sceneRef)
               => /\ scene' = scene
                  /\ groupsRef' = groupsRef
                  /\ outcome'[b] # "threw"]_vars

(***************************************************************************)
(* Claims: HeightEstimator                                                 *)
(***************************************************************************)
AllHeightsAre(h) == hRank = h /\ hExtrude = h /\ hCesium = h

Parses(s) == ~ParseFloat(s).isNaN

FallThroughHeight(p) ==
    IF Parses(p.height) THEN ParseFloat(p.height).v
    ELSE IF Parses(p.buildingHeight) THEN ParseFloat(p.buildingHeight).v
    ELSE IF Parses(p.levels) THEN LevelHeight * ParseFloat(p.levels).v
    ELSE IF Parses(p.buildingLevels) THEN LevelHeight * ParseFloat(p.buildingLevels).v
    ELSE DefaultHeight

\* C10: an attribute that is present but does not parse falls through to the
\* next one (height, building:height, levels / building:levels), and the
\* height is 10.0 when none parses.
C10_FallThrough == hpc = "out" => AllHeightsAre(FallThroughHeight(props))

\* C28: the raw height that ranks a Structure for the cap equals the raw
\* height its extrusion depth is computed from, on every attribute
\* combination.
C28_RankIsExtrusionHeight == hpc = "out" => hRank = hExtrude

\* C29: the depth of every extrusion is clamp(height / 12, 2, 30) of the raw
\* height the extrusion loop computed, so it lies in [2, 30] for every raw
\* height, 0 and negative heights included.
C29_DepthClamped ==
    hpc = "out" =>
        /\ 2 * hDepth.den <= hDepth.num
        /\ hDepth.num <= 30 * hDepth.den
        /\ hExtrude <= 24 => hDepth = RNum(2)
        /\ hExtrude >= 360 => hDepth = RNum(30)
        /\ (24 <= hExtrude /\ hExtrude <= 360) => 12 * hDepth.num = hExtrude * hDepth.den

\* a negative raw height got depth 2
C29_Witness == hpc = "out" /\ hExtrude < 0 /\ hDepth = RNum(2)

(***************************************************************************)
(* Claims: ViewerStateMachine                                              *)
(***************************************************************************)
\* C3: a load whose text parses to zero vertices or zero faces raises an
\* error and leaves the viewer state unchanged: the active mesh is still in
\* the scene, still referenced and not disposed, and viewCenter and
\* viewDistance keep their values.
C3_FailedLoadKeepsState ==
    [][(loadCalls' # loadCalls /\ lastLoad' = "error")
          => /\ meshRef' = meshRef
             /\ meshScene' = meshScene
             /\ meshDisposals' = meshDisposals
             /\ viewCenter' = viewCenter
             /\ viewDist' = viewDist]_vars

Disposed(m) == meshDisposals[m].geometry >= 1 /\ meshDisposals[m].material >= 1

\* C4: after successful loads exactly one mesh is in the scene and it is the
\* active one; every other mesh ever built is out of the scene and has had
\* its geometry and material disposed, so two meshes never share the scene.
C4_OneActiveMesh ==
    /\ meshScene = (IF meshRef = 0 THEN {} ELSE {meshRef})
    /\ \A m \in DOMAIN meshes : m # meshRef => (m \notin meshScene /\ Disposed(m))
    /\ lastLoad = "ok" => meshRef # 0

\* a second mesh is active after the first one was replaced
C4_Witness ==
    /\ lastLoad = "ok"
    /\ meshRef # 0
    /\ \E m \in DOMAIN meshes : m # meshRef /\ Disposed(m)

\* a step of the viewer handler named op
ViewerStep(op) == viewerOps' = viewerOps + 1 /\ lastOp' = op

\* C16: setRotation in the Empty state is a no-op: the rotation state, the
\* view center, the view distance and the camera are what they were.
C16_RotationNoOpWhenEmpty ==
    [][(ViewerStep("setRotation") /\ meshRef = 0)
          => (rotDeg' = rotDeg /\ viewCenter' = viewCenter /\ viewDist' = viewDist
                /\ camera' = camera)]_vars

\* C17: after any sequence of setRotation and loadMesh operations the active
\* mesh's applied rotation equals the viewer's rotation state.
C17_MeshRotationIsState ==
    meshRef # 0 => meshes[meshRef].rotation = rotDeg

\* C38: setRotation in the Loaded state rotates the existing mesh in place:
\* the active mesh stays the same mesh entity in the scene, nothing is
\* disposed, the mesh carries the new rotation and keeps the translation an
\* earlier centerAndGround gave it.
C38_RotationInPlace ==
    [][(ViewerStep("setRotation") /\ meshRef # 0)
          => /\ meshRef' = meshRef
             /\ meshScene' = meshScene
             /\ meshDisposals' = meshDisposals
             /\ meshes'[meshRef].rotation = rotDeg'
             /\ meshes'[meshRef].position = meshes[meshRef].position]_vars

\* C33: the teardown carries out every release step that does not itself
\* throw, whatever earlier step threw: the active mesh leaves the scene, its
\* geometry and material, the controls and the renderer are disposed; it
\* clears every viewer reference and cancels the frame.  After the teardown
\* no frame renders and no operation changes any viewer state.
C33_TeardownReleasesAll ==
    [][ /\ (mountRef /\ ~mountRef')
           => /\ meshRef # 0
                 => /\ "remove" \notin teardownFailed' => meshRef \notin meshScene'
                    /\ "geometry" \notin teardownFailed'
                          => meshDisposals'[meshRef].geometry
                                = meshDisposals[meshRef].geometry + 1
                    /\ "material" \notin teardownFailed'
                          => meshDisposals'[meshRef].material
                                = meshDisposals[meshRef].material + 1
              /\ "controls" \notin teardownFailed'
                    => released'.controls = released.controls + 1
              /\ "renderer" \notin teardownFailed'
                    => released'.renderer = released.renderer + 1
              /\ meshRef' = 0 /\ ~viewerRefs' /\ ~raf'
        /\ ~mountRef
           => UNCHANGED <<meshRef, meshScene, meshes, meshDisposals, rotDeg, lastObjText,
                          viewCenter, viewDist, camera, lastLoad, loadCalls, mountRef,
                          viewerRefs, raf, frames, released>> ]_vars

\* a panel with an active mesh was torn down, the disposal of the geometry
\* threw, the later steps were carried out, and a load was tried afterwards
C33_Witness ==
    /\ ~mountRef /\ lastOp = "loadMesh"
    /\ teardownFailed = {"geometry"}
    /\ released = [controls |-> 1, renderer |-> 1]
    /\ meshRef = 0 /\ meshScene = {}
    /\ \E m \in DOMAIN meshes : meshDisposals[m] = [geometry |-> 0, material |-> 1]

ActiveBox == WorldBox(meshes[meshRef])

\* C18: after centerAndGround in the Loaded state the world box of the mesh
\* has x center 0, z center 0 and lowest y 0, and the view center is the
\* center of that box; in the Empty state centerAndGround changes nothing.
C18_CenteredAndGrounded ==
    [][ViewerStep("centerAndGround")
          => IF meshRef = 0
             THEN UNCHANGED <<meshRef, meshScene, meshes, meshDisposals, rotDeg, lastObjText,
                              viewCenter, viewDist, camera>>
             ELSE LET box == WorldBox(meshes'[meshRef'])
                  IN  /\ meshRef' = meshRef
                      /\ box.min[1] + box.max[1] = 0
                      /\ box.min[3] + box.max[3] = 0
                      /\ box.min[2] = 0
                      /\ \A i \in 1..3 : 2 * viewCenter'[i] = box.min[i] + box.max[i]]_vars

\* centerAndGround moved a rotated mesh that was off the origin and above the ground
C18_Witness ==
    /\ lastOp = "centerAndGround"
    /\ meshRef # 0
    /\ meshes[meshRef].rotation # InitialRot
    /\ meshes[meshRef].position[1] # 0
    /\ meshes[meshRef].position[2] # 0
    /\ meshes[meshRef].position[3] # 0

\* the camera offset the claim gives for a preset kind and distance d
ClaimedOffset(kind, d) ==
    IF kind = "top" THEN <<0, d, 0>> ELSE IF kind = "front" THEN <<0, 0, d>> ELSE <<d, d, d>>

LargestDimension(box) == SetMax({box.max[i] - box.min[i] : i \in 1..3})

\* C20: in every Loaded state the view center is the center of the active
\* mesh's world box and the view distance is twice the box's largest
\* dimension, 2 when that dimension is 0.
C20_FramingInvariant ==
    meshRef # 0 =>
        /\ \A i \in 1..3 : 2 * viewCenter[i] = ActiveBox.min[i] + ActiveBox.max[i]
        /\ viewDist = IF LargestDimension(ActiveBox) = 0 THEN 2
                      ELSE 2 * LargestDimension(ActiveBox)

\* a mesh with a box of dimension 0 is loaded, rotated and framed at distance 2
C20_Witness ==
    /\ meshRef # 0
    /\ LargestDimension(ActiveBox) = 0
    /\ meshes[meshRef].rotation # InitialRot
    /\ viewDist = 2

(***************************************************************************)
(* Claims: RegionSelector                                                  *)
(***************************************************************************)
WidthMeters(r) == MetersPerUnit * (r.east - r.west)

HeightMeters(r) == MetersPerUnit * (r.north - r.south)

\* the rectangles clamp has returned: the last preview and the last emitted one
Clamped ==
    (IF preview.a.null \/ preview.b.null THEN {} ELSE {[rect |-> preview.rect, a |-> preview.a, b |-> preview.b]})
        \cup (IF emitted.count = 0 THEN {} ELSE {[rect |-> emitted.rect, a |-> emitted.a, b |-> emitted.b]})

EastWestDistance(c) == SurfaceDistance(c.a, Carto(c.b.longitude, c.a.latitude))

NorthSouthDistance(c) == SurfaceDistance(c.a, Carto(c.a.longitude, c.b.latitude))

\* C7: at every preview and at drag-end the clamped rectangle is at most
\* max metres wide and at most max metres high, and an axis whose distance
\* exceeded max ends with a side of max.
C7_SidesBounded ==
    \A c \in Clamped :
        /\ WidthMeters(c.rect) <= max
        /\ HeightMeters(c.rect) <= max
        /\ EastWestDistance(c) > max => WidthMeters(c.rect) = max
        /\ NorthSouthDistance(c) > max => HeightMeters(c.rect) = max

\* C8: a scaled axis keeps the direction of the drag: the anchor is a corner
\* of the rectangle and the rectangle extends from it toward the live point,
\* never beyond the live point.
C8_ScaledTowardLive ==
    \A c \in Clamped :
        /\ (EastWestDistance(c) > max /\ c.b.longitude > c.a.longitude)
              => (c.rect.west = c.a.longitude /\ c.rect.east <= c.b.longitude)
        /\ (EastWestDistance(c) > max /\ c.b.longitude < c.a.longitude)
              => (c.rect.east = c.a.longitude /\ c.rect.west >= c.b.longitude)
        /\ (NorthSouthDistance(c) > max /\ c.b.latitude > c.a.latitude)
              => (c.rect.south = c.a.latitude /\ c.rect.north <= c.b.latitude)
        /\ (NorthSouthDistance(c) > max /\ c.b.latitude < c.a.latitude)
              => (c.rect.north = c.a.latitude /\ c.rect.south >= c.b.latitude)

\* what the claim gives for the preview of an anchor and a live point
ClaimedPreview(a, b) ==
    IF ~a.null /\ ~b.null THEN ClampToMax10km(a, b) ELSE FallbackRectangle

PreviewComputed == preview # [rect |-> NoRect, a |-> NoCarto, b |-> NoCarto]

C25_PanningSuspendedIffDragging == enableInputs <=> ~dragging

\* a LEFT_UP that passed its guard
EndStep == dragging /\ ~dragging' /\ drags' = drags

\* a MOUSE_MOVE that passed its guards and moved the live point
MoveStep == lastCarto' # lastCarto /\ drags' = drags

C30_AxesIndependent ==
    \A c \in Clamped :
        LET scaled == ScaledLive(c.a, c.b)
        IN  /\ EastWestDistance(c) <= max
                   => /\ scaled.longitude = c.b.longitude
                      /\ Abs(c.b.longitude - c.a.longitude) >= eps
                            => /\ c.rect.west = Min2(c.a.longitude, c.b.longitude)
                               /\ c.rect.east = Max2(c.a.longitude, c.b.longitude)
            /\ NorthSouthDistance(c) <= max
                   => /\ scaled.latitude = c.b.latitude
                      /\ Abs(c.b.latitude - c.a.latitude) >= eps
                            => /\ c.rect.south = Min2(c.a.latitude, c.b.latitude)
                               /\ c.rect.north = Max2(c.a.latitude, c.b.latitude)
            /\ scaled.longitude
                   = ScaledLive(c.a, Carto(c.b.longitude, c.a.latitude)).longitude
            /\ scaled.latitude
                   = ScaledLive(c.a, Carto(c.a.longitude, c.b.latitude)).latitude

\* a rectangle was clamped whose east-west axis was scaled to max while its
\* north-south axis, shorter than max, runs from the anchor to the live point
C30_Witness ==
    \E c \in Clamped :
        /\ EastWestDistance(c) > max
        /\ WidthMeters(c.rect) = max
        /\ NorthSouthDistance(c) <= max
        /\ c.b.latitude # c.a.latitude
        /\ c.rect.south = Min2(c.a.latitude, c.b.latitude)
        /\ c.rect.north = Max2(c.a.latitude, c.b.latitude)

\* every rectangle shown or reported so far: the last preview (clamped or the
\* fallback), the constant rectangle of the entity, the last emitted one
ShownRectangles ==
    (IF PreviewComputed THEN {preview.rect} ELSE {})
        \cup (IF rectangle.kind = "constant" THEN {rectangle.rect} ELSE {})
        \cup (IF emitted.count = 0 THEN {} ELSE {emitted.rect})

\* C31: every rectangle clamp returns, so every previewed and every finalized
\* region, has west < east and south < north strictly, also when the anchor
\* and the live point coincide on an axis; the emitted bbox in degrees as well.
C31_StrictRectangle ==
    /\ \A r \in ShownRectangles : r.west < r.east /\ r.south < r.north
    /\ emitted.count > 0
          => /\ emitted.bbox[1] # emitted.bbox[3] /\ RLeq(emitted.bbox[1], emitted.bbox[3])
             /\ emitted.bbox[2] # emitted.bbox[4] /\ RLeq(emitted.bbox[2], emitted.bbox[4])

\* a click without movement was finalized: its region is eps wide and eps high
C31_Witness ==
    /\ emitted.count > 0
    /\ emitted.a = emitted.b
    /\ emitted.rect.east = emitted.rect.west + eps
    /\ emitted.rect.north = emitted.rect.south + eps

\* C32: in every Idle state, before the first drag and after each drag-end,
\* the anchor and the live point are absent.
C32_PointsOnlyWhileDragging == ~dragging => (startCarto.null /\ lastCarto.null)

(***************************************************************************)
(* Claims: structure cap                                                   *)
(***************************************************************************)
\* the building-tagged features of the response, in response order
CapBuildings == SelectSeq(capIn, IsBuildingTagged)

\* the Structure features: building-tagged and polygon-shaped
Structures == {i \in 1..Len(CapBuildings) : IsPolygonal(CapBuildings[i].geometry)}

Rendered == {capOut[j].idx : j \in 1..Len(capOut)}

RawHeight(i) == RankHeight(CapBuildings[i].properties)

\* C11: when the response holds more Structure features than the cap, exactly
\* cap of them are rendered and every rendered one is at least as tall (raw
\* height) as every dropped one, ties going to the earlier feature; with at
\* most cap Structure features all of them are rendered.
C11_CapKeepsTallest ==
    capPc = "out" =>
        IF Cardinality(Structures) > SmallCap
        THEN /\ Cardinality(Rendered) = SmallCap
             /\ Rendered \subseteq Structures
             /\ \A r \in Rendered, d \in Structures \ Rendered :
                    \/ RawHeight(r) > RawHeight(d)
                    \/ RawHeight(r) = RawHeight(d) /\ r < d
        ELSE Rendered = Structures

(***************************************************************************)
(* Claims: projection                                                      *)
(***************************************************************************)
\* the projected point is (x, y), x and y whole numbers
ProjectsTo(x, y) == projOut = [x |-> Ratio(x, 1), y |-> Ratio(y, 1)]

RegionCenter == <<(projBbox[1] + projBbox[3]) \div 2, (projBbox[2] + projBbox[4]) \div 2>>

\* what the claim says of the three named points of the region
CornersOnSquare ==
    /\ projPoint = RegionCenter => ProjectsTo(0, 0)
    /\ projPoint = <<projBbox[1], projBbox[2]>> => ProjectsTo(0 - halfSize, 0 - halfSize)
    /\ projPoint = <<projBbox[3], projBbox[4]>> => ProjectsTo(halfSize, halfSize)

ClaimedTriangles(idx) ==
    IF Len(idx) < 3 THEN << >>
    ELSE [j \in 1..(3 * (Len(idx) - 2)) |->
             LET k == ((j - 1) \div 3) + 2
             IN  CASE (j - 1) % 3 = 0 -> Num(idx[1] - 1)
                   [] (j - 1) % 3 = 1 -> Num(idx[k] - 1)
                   [] (j - 1) % 3 = 2 -> Num(idx[k + 1] - 1)]

RECURSIVE ClaimedFaces(_)
ClaimedFaces(mesh) ==
    IF mesh = << >> THEN << >>
    ELSE (IF Head(mesh).kind = "f" THEN ClaimedTriangles(Head(mesh).idx) ELSE << >>)
         \o ClaimedFaces(Tail(mesh))

\* C14: every face line with n >= 3 index tokens i1 .. in appends exactly the
\* n - 2 triangles (i1 - 1, ik - 1, i(k+1) - 1), k = 2 .. n - 1, in that order,
\* and a face line with fewer than 3 indices appends none.
C14_FanTriangulation ==
    parsePc = "out" => parseOut.parsed.faces = ClaimedFaces(parseMesh)

\* "f 1 2 3 4 5" gave (0, 1, 2), (0, 2, 3), (0, 3, 4)
C14_Witness ==
    /\ parsePc = "out"
    /\ parseMesh = <<FaceEntry(<<1, 2, 3, 4, 5>>, FALSE)>>
    /\ parseOut.parsed.faces =
          <<Num(0), Num(1), Num(2), Num(0), Num(2), Num(3), Num(0), Num(3), Num(4)>>

\* C39: every index of the face sequence parse returns for a mesh that
\* passes the no-usable-geometry check is a whole number from 0 up to, not
\* including, the number of parsed vertices.
C39_IndicesInRange ==
    (parsePc = "out" /\ ~NoUsableGeometry(parseOut.parsed))
        => \A i \in 1..Len(parseOut.parsed.faces) :
               /\ ~parseOut.parsed.faces[i].isNaN
               /\ parseOut.parsed.faces[i].v >= 0
               /\ parseOut.parsed.faces[i].v < Len(parseOut.parsed.vertices) \div 3

VertexLines == {k \in 1..Len(parseMesh) : parseMesh[k].kind = "v"}

FaceLines == {k \in 1..Len(parseMesh) : parseMesh[k].kind = "f"}

\* (n1 - 2) + .. + (nk - 2) over the face lines of a mesh
RECURSIVE ClaimedTriangleCount(_)
ClaimedTriangleCount(mesh) ==
    IF mesh = << >> THEN 0
    ELSE (IF Head(mesh).kind = "f" THEN Len(Head(mesh).idx) - 2 ELSE 0)
         + ClaimedTriangleCount(Tail(mesh))

\* C15: a text with V vertex lines and faces of n1 .. nk (each at least 3)
\* indices gives a geometry of V vertices and (n1 - 2) + .. + (nk - 2)
\* triangles whose bounding box is, on each axis, the smallest and the
\* largest coordinate of the vertex lines.
C15_CountsAndBounds ==
    parsePc = "out" =>
        /\ parseOut.info.vertices = Cardinality(VertexLines)
        /\ (\A k \in FaceLines : Len(parseMesh[k].idx) >= 3)
              => parseOut.info.faces = ClaimedTriangleCount(parseMesh)
        /\ VertexLines # {}
              => /\ ~parseOut.info.bounds.isEmpty
                 /\ \A i \in 1..3 :
                       /\ \E k \in VertexLines : parseOut.info.bounds.min[i] = parseMesh[k].p[i]
                       /\ \E k \in VertexLines : parseOut.info.bounds.max[i] = parseMesh[k].p[i]
                       /\ \A k \in VertexLines :
                             /\ parseOut.info.bounds.min[i] <= parseMesh[k].p[i]
                             /\ parseOut.info.bounds.max[i] >= parseMesh[k].p[i]

\* the cube gave 8 vertices, 12 triangles and its true extents
C15_Witness ==
    /\ parsePc = "out"
    /\ parseMesh = Cube
    /\ parseOut.info.vertices = 8
    /\ parseOut.info.faces = 12
    /\ parseOut.info.bounds.min = <<0, 0, 0>>
    /\ parseOut.info.bounds.max = <<2, 2, 2>>

(***************************************************************************)
(* Claims: FeatureClassifier                                               *)
(***************************************************************************)
Contributes(l) == clsOut[l] > 0

\* C23: a feature with a highway tag whose geometry is not line-shaped falls
\* through to the later rules: a polygon tagged highway and leisure=park (or
\* landuse=grass) is Green, one tagged highway and natural=water (or
\* waterway=riverbank) is Water.
C23_HighwayPolygonFallsThrough ==
    (clsPc = "out" /\ TruthyTag(clsIn.properties.highway) /\ IsPolygonal(clsIn.geometry)
        /\ ~IsBuildingTagged(clsIn))
    => /\ IsPark(clsIn) => Contributes("parks")
       /\ (~IsPark(clsIn) /\ IsWater(clsIn)) => Contributes("water")

\* C27: every feature contributes geometry to at most one of the four groups,
\* and a polygon tagged building and also leisure=park (or natural=water) is
\* found in the structures group only.
C27_AtMostOneGroup ==
    clsPc = "out"
    => /\ Cardinality({l \in Layers : Contributes(l)}) <= 1
       /\ (IsBuildingTagged(clsIn) /\ IsPolygonal(clsIn.geometry)
              /\ (IsPark(clsIn) \/ IsWater(clsIn)))
          => \A l \in Layers : Contributes(l) <=> l = "buildings"

(***************************************************************************)
(* Claims: recentering                                                     *)
(***************************************************************************)
\* the Structure features: building-tagged, with polygon geometry
IsStructure(f) == IsBuildingTagged(f) /\ IsPolygonal(f.geometry)

\* the center of the bounds of the Structure geometry alone
StructureCenter == GetCenter(OverallBB(StructureBoxes(SelectSeq(rcIn, IsStructure), rcBbox)))

RSum(a, b) == Ratio(a.num * b.den + b.num * a.den, a.den * b.den)

\* C35: after a build that installs groups, each of the four groups carries
\* the translation -center, center being the center of the bounds of the
\* Structure geometry alone; the translated Structure bounds are centered on
\* the origin and the camera target is the origin.
C35_GroupsRecentered ==
    (rcPc = "out" /\ rcOut.installed)
        => /\ \A l \in Layers : \A i \in 1..3 : rcOut.position[l][i] = RNeg(StructureCenter[i])
           /\ \A l \in Layers : \A i \in 1..3 :
                  RSum(rcOut.overallBB.min[i], rcOut.position[l][i])
                      = RNeg(RSum(rcOut.overallBB.max[i], rcOut.position[l][i]))
           /\ rcOut.camera.target = Origin

\* a build with two buildings, or a building and a road or park, whose bounds are off the
\* origin was installed and its road group moved with the buildings
C35_Witness ==
    /\ rcPc = "out" /\ rcOut.installed
    /\ Len(rcIn) = 2
    /\ \E k \in 1..2 : ~IsStructure(rcIn[k])
    /\ \A i \in 1..3 : rcOut.position["roads"][i].num # 0
    /\ rcOut.position["roads"] = rcOut.position["buildings"]


(***************************************************************************)
(* Claims: export and snapshot requests                                    *)
(***************************************************************************)
\* the step is the dispatch of a viewer response of the given type
ResponseStep(type) == events' = events + 1 /\ lastEvent'.type = type

\* C34: an export request is resolved at most once, and once when its timer
\* has fired.  A response with the request's own identifier that arrives
\* while the request is pending resolves it with what the response carries,
\* the timer resolves a still pending request with the timeout failure, a
\* response with another identifier leaves the request as it was; a resolved
\* request has no listener and no later response or timer changes its result.
C34_ExportResolvesOnce ==
    [][\A r \in Runs :
         /\ objReq'[r].calls <= 1
         /\ (objReq'[r].state # "unsent" /\ ~objReq'[r].timer) => objReq'[r].calls = 1
         /\ (ResponseStep("obj") /\ objReq[r].state = "pending")
               => IF lastEvent'.requestId = r
                  THEN /\ objReq'[r].state = "resolved"
                       /\ objReq'[r].value \in {"ok", "failed"}
                       /\ objReq'[r].value = "ok"
                            <=> /\ lastEvent'.detail.ok
                                /\ lastEvent'.detail.isString
                                /\ lastEvent'.detail.objText # << >>
                       /\ objReq'[r].value = "ok"
                            => objReq'[r].objText = lastEvent'.detail.objText
                  ELSE objReq'[r] = objReq[r]
         /\ (objReq[r].timer /\ ~objReq'[r].timer /\ objReq[r].state = "pending")
               => objReq'[r].state = "resolved" /\ objReq'[r].value = "timeout"
         /\ objReq'[r].state = "resolved" => ~objReq'[r].listener
         /\ objReq[r].state = "resolved"
               => /\ objReq'[r].state = "resolved"
                  /\ objReq'[r].value = objReq[r].value
                  /\ objReq'[r].objText = objReq[r].objText
                  /\ objReq'[r].calls = objReq[r].calls]_vars

\* the first request was resolved by its own response, its timer has fired
\* since, a late response with its identifier was the last event, and the
\* second request is still pending
C34_Witness ==
    /\ objReq[1].value = "ok" /\ objReq[1].calls = 1 /\ ~objReq[1].timer
    /\ lastEvent.type = "obj" /\ lastEvent.requestId = 1 /\ events = 2
    /\ objReq[2].state = "pending"

====
